---- MODULE Spec2Model ----
(***************************************************************************)
(* FluxSand: the AHRS orientation filter and its sample scheduling.        *)
(*                                                                         *)
(* The repository holds four revisions of class AHRS.  Each behaviour of   *)
(* the model runs one of them, chosen in Init and named after its file:    *)
(*   "comp_ahrs"  src/src/component/comp_ahrs.hpp  no input wiring         *)
(*   "part_003"   src/unnamed/part_003   Message::Topic callbacks          *)
(*   "part_002"   src/unnamed/part_002   LibXR::Topic callbacks, 5 outputs *)
(*   "part_008"   src/unnamed/part_008   OnData, RunUnitTest               *)
(*                                                                         *)
(* Abstractions.  Time is the system clock in microseconds.  dt_ is kept   *)
(* in microseconds (the code divides by 1000000.0f to get seconds).  The   *)
(* gain beta_imu is kept in hundredths (10.0 -> 1000, 0.07 -> 7).  A float *)
(* of a sensor vector is a pair [rd, v]: the sensor read that produced it  *)
(* and its value; rd = 0 is the zero-initialised member, rd = -1 a value   *)
(* written by RunUnitTest.  Derived outputs (quat_, eulr_, ...) carry the  *)
(* number of the Update that produced the quaternion they derive from.     *)
(* The system clock is taken to be non-decreasing.                         *)
(***************************************************************************)
EXTENDS Integers, Sequences, FiniteSets, TLC

(* ------------------------------- bounds -------------------------------- *)
MaxReads == 2
MaxTicks == 1
MaxUnitTests == 1

Variants == {"comp_ahrs", "part_003", "part_002", "part_008"}
Threads == {"filter", "caller"}
Epochs == {250000}
TickSteps == {0, 1000000, 1000001}
AccelValues == {0, 1}

VARIABLES
  variant,
  clock, ticks,
  m_pc, m_cpy, m_accel, m_gyro, reads,
  accel_, gyro_, quat_, eulr_, filtered_accel_, quat_without_z_,
  eulr_without_yaw_, now_, last_wakeup_, start_, dt_, ready_,
  f_pc, t_pc, tests, loc,
  published,
  updates, cycleUpd, slowUsed,
  signals, sinceAcquire, bursts, cycles, gyroSince,
  writers

(* the filter's arithmetic on float values: quat_, accel_, gyro_ and       *)
(* filtered_accel_ as floats, the filter task's position, and the inputs   *)
(* of the last Update and of the last AccelRemoveGravity                   *)
VARIABLES quat_f, accel_f, gyro_f, filtered_accel_f, pc_f, cycles_f,
          samples_f, last_f, grav_f, eulr_f, test_f

floatVars == <<quat_f, accel_f, gyro_f, filtered_accel_f, pc_f, cycles_f,
               samples_f, last_f, grav_f, eulr_f, test_f>>

(* one Type::CycleValue object: its value_, the operation applied last, *)
(* that operation's argument and the float an operator- returned       *)
VARIABLES cv, cv_op, cv_arg, cv_ans

cycleVars == <<cv, cv_op, cv_arg, cv_ans>>

(* the Euler angles of the filter as floats: eulr_, eulr_without_yaw_ and *)
(* the position of the filter thread between GetEulr and RemoveYaw       *)
VARIABLES eulr_v, eulr_without_yaw_v, pc_e

eulrVars == <<eulr_v, eulr_without_yaw_v, pc_e>>

(* class InferenceEngine: the revision of comp_inference.hpp in use, the  *)
(* model's window, the members the callbacks fill, the feature buffer,   *)
(* the task's position and counter, the messages published so far, the   *)
(* values the last CollectSensorData read and the windows RunInference   *)
(* was given                                                             *)
VARIABLES i_rev, input_tensor_size_, new_data_number_, i_eulr, i_gyro,
          i_accel, i_ready, sensor_buffer_, i_pc, update_counter, pubs,
          collected, windows

(* the wake-ups of InferenceTask so far and those among them that called   *)
(* RunInference; the members RunInference works on, the model's last       *)
(* output (its top class and that class's probability), the label          *)
(* RunInference returned last and the number of its calls                  *)
VARIABLES wakeups, run_at, prediction_history_, history_size_,
          min_consensus_votes_, confidence_threshold_, last_answer, result,
          inferences

voteVars == <<prediction_history_, history_size_, min_consensus_votes_,
              confidence_threshold_, last_answer, result, inferences>>

(* the static last_result of InferenceTask and the predictions printed   *)
(* so far                                                                  *)
VARIABLES last_result, announced

announceVars == <<last_result, announced>>

inferVars == <<i_rev, input_tensor_size_, new_data_number_, i_eulr, i_gyro,
               i_accel, i_ready, sensor_buffer_, i_pc, update_counter, pubs,
               collected, windows, wakeups, run_at, voteVars, announceVars>>

(* class FluxSand with its ModeManager and the sand switch of CompGuiX:   *)
(* the revision in use, the members, the steady clock (seconds), the     *)
(* position and locals of FluxSand::Run, the numbers of clock advances,  *)
(* button presses and gestures so far, and the numbers of countdowns the *)
(* loop found expired, of completion notes it played and of SandDisable  *)
(* calls it made                                                         *)
VARIABLES c_rev, mode_, landscape_, stopwatch_running_,
          stopwatch_start_time_, stopwatch_elapsed_sec_, timer_active_,
          timer_start_time_, timer_duration_sec_, max_duration_sec_,
          sand_enable_, reset_, steady, run_pc, l_mode, l_landscape,
          l_remaining, advances, presses, gestures, expiries, notes,
          run_disables

modeVars == <<mode_, landscape_, stopwatch_running_, stopwatch_start_time_,
              stopwatch_elapsed_sec_, timer_active_, timer_start_time_,
              timer_duration_sec_, max_duration_sec_>>

runVars == <<run_pc, l_mode, l_landscape, l_remaining>>

ctlVars == <<c_rev, modeVars, sand_enable_, reset_, steady, runVars,
             advances, presses, gestures, expiries, notes, run_disables>>

(* class Mpu9250: the calibration file cali_data.bin, the members          *)
(* gyro_bias_, gyro_ and gyro_delta_, the gyro bytes of the last register  *)
(* read, the last published gyro sample and the position of the device     *)
(* thread                                                                  *)
VARIABLES file_d, gyro_bias_, gyro_d, gyro_delta_, data_d, gyro_pub_d,
          pc_d, reads_d

mpuVars == <<file_d, gyro_bias_, gyro_d, gyro_delta_, data_d, gyro_pub_d,
             pc_d, reads_d>>

(* ---- class SandGrid: the revision, the cells that hold a grain, whether *)
(* the last operation called on the grid was StepOnce and, if so, the     *)
(* moves it queued                                                         *)
VARIABLES s_rev, grid, sand_op, moves_last

sandVars == <<s_rev, grid, sand_op, moves_last>>

(* ---- class CompGuiX and its two grids: the grids, the gravity angle,    *)
(* the position of ThreadFun with its loop counter and the moves a        *)
(* StepOnce in progress has queued, and the last operation on the pair    *)
(* with MoveSand's argument and return value                              *)
VARIABLES grid_up_, grid_down_, gravity_deg_, g_pc, g_i, g_moves, glass_op,
          ms_angle, ms_ret

glassVars == <<grid_up_, grid_down_, gravity_deg_, g_pc, g_i, g_moves,
               glass_op, ms_angle, ms_ret>>

(* ---- Mpu9250::CalibrateThreadTask: the position of the thread, the      *)
(* steady clock in seconds, the locals start_time, counter, gyro_offset_x, *)
(* _y, _z and the static cali_done; the device reads and loop turns so     *)
(* far, the number of times the calibration finished and the number of     *)
(* calls of SaveCalibrationData, the clock at the last turn that found    *)
(* movement (-1: none), and the counter the last average was divided by   *)
(* (-1: no average computed yet)                                          *)
VARIABLES cali_pc, steady_c, start_time, cali_counter, gyro_offset,
          cali_done, reads_c, polls, completions, saves, moved_at,
          averaged_over

caliVars == <<cali_pc, steady_c, start_time, cali_counter, gyro_offset,
              cali_done, reads_c, polls, completions, saves, moved_at,
              averaged_over>>

(* the state outside the float-valued filter cycle *)
notFloat == <<cycleVars, eulrVars, inferVars, ctlVars, mpuVars, sandVars,
              glassVars, caliVars>>

(* the state outside the CycleValue object *)
notCycle == <<floatVars, eulrVars, inferVars, ctlVars, mpuVars, sandVars,
              glassVars, caliVars>>

(* the state outside the Euler angles *)
notEulr == <<floatVars, cycleVars, inferVars, ctlVars, mpuVars, sandVars,
             glassVars, caliVars>>

(* the state outside the classifier *)
notInfer == <<floatVars, cycleVars, eulrVars, ctlVars, mpuVars, sandVars,
              glassVars, caliVars>>

(* the state outside the controller *)
notCtl == <<floatVars, cycleVars, eulrVars, inferVars, mpuVars, sandVars,
            glassVars, caliVars>>

(* the state outside the sensor device *)
notMpu == <<floatVars, cycleVars, eulrVars, inferVars, ctlVars, sandVars,
            glassVars, caliVars>>

(* the state outside the sand grid *)
notSand == <<floatVars, cycleVars, eulrVars, inferVars, ctlVars, mpuVars,
             glassVars, caliVars>>

(* the state outside the pair of grids *)
notGlass == <<floatVars, cycleVars, eulrVars, inferVars, ctlVars, mpuVars,
              sandVars, caliVars>>

(* the state outside the calibration thread *)
notCali == <<floatVars, cycleVars, eulrVars, inferVars, ctlVars, mpuVars,
             sandVars, glassVars>>

(* the state outside the scheduling of the filter *)
libVars == <<floatVars, cycleVars, eulrVars, inferVars, ctlVars, mpuVars,
             sandVars, glassVars, caliVars>>

vars == <<variant, clock, ticks, m_pc, m_cpy, m_accel, m_gyro, reads,
          accel_, gyro_, quat_, eulr_, filtered_accel_, quat_without_z_,
          eulr_without_yaw_, now_, last_wakeup_, start_, dt_, ready_,
          f_pc, t_pc, tests, loc, published,
          updates, cycleUpd, signals, sinceAcquire, bursts, cycles, gyroSince,
          slowUsed, writers, libVars>>

(* the state of the scheduling of the filter *)
ahrsVars == <<variant, clock, ticks, m_pc, m_cpy, m_accel, m_gyro, reads,
              accel_, gyro_, quat_, eulr_, filtered_accel_, quat_without_z_,
              eulr_without_yaw_, now_, last_wakeup_, start_, dt_, ready_,
              f_pc, t_pc, tests, loc, published,
              updates, cycleUpd, signals, sinceAcquire, bursts, cycles,
              gyroSince, slowUsed, writers>>

updHist == <<updates, cycleUpd, slowUsed>>
sensorVars == <<m_pc, m_cpy, m_accel, m_gyro, reads>>
outputVars == <<eulr_, filtered_accel_, quat_without_z_, eulr_without_yaw_>>
timeVars == <<now_, last_wakeup_, start_, dt_>>
gateHist == <<signals, sinceAcquire, bursts, cycles, gyroSince>>

(* ------------------------------ data types ----------------------------- *)
Float(rd, v) == [rd |-> rd, v |-> v]
Vector3(rd, v) == [x |-> Float(rd, v), y |-> Float(rd, v), z |-> Float(rd, v)]
Axes == <<"x", "y", "z">>

(* Type::Vector3 accel_{}, gyro_{}: value-initialised members *)
Vector3Init == Vector3(0, 0)

IsZeroVector(a) == (a.x.v = 0) /\ (a.y.v = 0) /\ (a.z.v = 0)
ReadsOf(a) == {a.x.rd, a.y.rd, a.z.rd}

(* ------------------------------ constants ------------------------------ *)
GAIN_SWITCH_US == 1000000
BETA_FAST == 1000
BETA_SLOW == 7
BETA_SLOW_ONDATA == 200
DT_FIXED_US == 1000
NO_BETA == 0 - 1

(* a gate that is constructed with a permit already pending *)
ReadyInitFull == 0 + 1

(* std::binary_semaphore ready_ is constructed with 0 permits *)
ReadyInit == 0

(* ready_.release().  binary_semaphore is counting_semaphore<1>; releasing  *)
(* it while a permit is already pending breaks the precondition            *)
(* update <= max() - counter, which is undefined behaviour: the counter    *)
(* either stays at 1 or is incremented past 1 (the fetch_add of the        *)
(* standard libraries).                                                    *)
ReleaseOutcomes(r) == IF r = 0 THEN {1} ELSE {r, r + 1}

(* the correction gain chosen in Update *)
BetaImu(v, now, start) ==
  IF now - start > GAIN_SWITCH_US
    THEN (IF v = "part_008" THEN BETA_SLOW_ONDATA ELSE BETA_SLOW)
    ELSE BETA_FAST

(* dt_ as assigned in Update, in microseconds *)
DtOf(v, now, last) == IF v = "part_008" THEN DT_FIXED_US ELSE now - last

Stmt(op, arg) == [op |-> op, arg |-> arg]

(* ThreadTask publishing in the order in which the constructor creates   *)
(* the topics (eulr_without_yaw before quat_without_z)                   *)
ThreadTaskBodyCtorOrder(v) ==
  IF v = "part_002"
    THEN << Stmt("acquire", ""), Stmt("Update", ""), Stmt("GetEulr", ""),
            Stmt("AccelRemoveGravity", ""), Stmt("RemoveYaw", ""),
            Stmt("Publish", "quat"), Stmt("Publish", "eulr"),
            Stmt("Publish", "gravity_free_accel"),
            Stmt("Publish", "eulr_without_yaw"),
            Stmt("Publish", "quat_without_z") >>
    ELSE << Stmt("acquire", ""), Stmt("Update", ""), Stmt("GetEulr", "") >>

(* ThreadTask publishing before the yaw-free outputs are recomputed *)
ThreadTaskBodyLateYaw(v) ==
  IF v = "part_002"
    THEN << Stmt("acquire", ""), Stmt("Update", ""), Stmt("GetEulr", ""),
            Stmt("AccelRemoveGravity", ""),
            Stmt("Publish", "quat"), Stmt("Publish", "eulr"),
            Stmt("Publish", "gravity_free_accel"),
            Stmt("Publish", "quat_without_z"),
            Stmt("Publish", "eulr_without_yaw"), Stmt("RemoveYaw", "") >>
    ELSE << Stmt("acquire", ""), Stmt("Update", ""), Stmt("GetEulr", "") >>

(* the statements of one iteration of AHRS::ThreadTask's loop *)
ThreadTaskBody(v) ==
  CASE v = "part_002" ->
         << Stmt("acquire", ""), Stmt("Update", ""), Stmt("GetEulr", ""),
            Stmt("AccelRemoveGravity", ""), Stmt("RemoveYaw", ""),
            Stmt("Publish", "quat"), Stmt("Publish", "eulr"),
            Stmt("Publish", "gravity_free_accel"),
            Stmt("Publish", "quat_without_z"),
            Stmt("Publish", "eulr_without_yaw") >>
    [] v = "part_003" ->
         << Stmt("acquire", ""), Stmt("Update", ""), Stmt("GetEulr", ""),
            Stmt("Publish", "ahrs_quat"), Stmt("Publish", "ahrs_eulr") >>
    [] OTHER ->
         << Stmt("acquire", ""), Stmt("Update", ""), Stmt("GetEulr", "") >>

(* the statements of AHRS::RunUnitTest that touch the filter *)
RunUnitTestBody ==
  << Stmt("init", ""), Stmt("Update", ""), Stmt("GetEulr", ""),
     Stmt("verify", "") >>

Body(t) == IF t = "filter" THEN ThreadTaskBody(variant) ELSE RunUnitTestBody
Pc(t) == IF t = "filter" THEN f_pc ELSE t_pc
At(t, op) == Pc(t) \in 1..Len(Body(t)) /\ Body(t)[Pc(t)].op = op
Last(t) == Pc(t) = Len(Body(t))
NextPc(t) == IF Last(t) THEN (IF t = "filter" THEN 1 ELSE 0) ELSE Pc(t) + 1
Advance(t) == IF t = "filter"
                THEN f_pc' = NextPc(t) /\ UNCHANGED t_pc
                ELSE t_pc' = NextPc(t) /\ UNCHANGED f_pc

(* the locals of Update and AccelRemoveGravity of one thread: the loaded  *)
(* accel (a), gyro (g), accel loaded again (a2), the gain, and how far the *)
(* thread has got (step)                                                   *)
LocInit == [a |-> Vector3Init, g |-> Vector3Init, a2 |-> Vector3Init,
            beta_imu |-> NO_BETA, step |-> 0]


(* the locals of a thread die when it leaves its last statement *)
Leave(t) == loc' = IF Last(t) THEN [loc EXCEPT ![t] = LocInit] ELSE loc

Wrote(t, fields) ==
  writers' = [f \in DOMAIN writers |->
                IF f \in fields THEN writers[f] \cup {t} ELSE writers[f]]

(* --------------------------- float arithmetic -------------------------- *)
(* A C float is an integer count of units of 1/ONE, rounded to a 7-bit     *)
(* significand (round to nearest, ties to even); magnitudes below MANT     *)
(* units are kept exactly, magnitudes above FLT_MAX overflow to infinity.  *)
(* NaN and the infinities are three values outside the finite range.  The  *)
(* sign of zero is not kept.                                               *)
ONE == 256
MANT == 128
FLT_MAX == 32768
PosInf == FLT_MAX + 1
NegInf == 0 - PosInf
NaN == FLT_MAX + 2

IsNaN(x) == x = NaN
IsInf(x) == x \in {PosInf, NegInf}
IsFinite(x) == ~IsNaN(x) /\ ~IsInf(x)
Abs(x) == IF x < 0 THEN 0 - x ELSE x
Sign(x) == IF x < 0 THEN 0 - 1 ELSE IF x > 0 THEN 1 ELSE 0
SignedInf(s) == IF s < 0 THEN NegInf ELSE PosInf

(* the spacing of the floats around the magnitude m *)
Ulps == {2 ^ k : k \in 0..17}
Ulp(m) ==
  CHOOSE u \in Ulps :
    (m \div u) < MANT /\ (u = 1 \/ (m \div u) >= MANT \div 2)

(* the multiple of u nearest to the magnitude m, ties to the even multiple *)
RoundToUlp(m, u) ==
  IF 2 * (m % u) < u THEN m - (m % u)
  ELSE IF 2 * (m % u) > u THEN m - (m % u) + u
  ELSE IF (m \div u) % 2 = 0 THEN m - (m % u) ELSE m - (m % u) + u

(* round the magnitude m to the nearest float *)
RoundMagnitude(m) == RoundToUlp(m, Ulp(m))

(* the float of sign of x and rounded magnitude m, or infinity past FLT_MAX *)
Overflow(x, m) == IF m > FLT_MAX THEN SignedInf(x) ELSE Sign(x) * m

(* the float nearest to the exact value x (x in units) *)
Fl(x) == Overflow(x, RoundMagnitude(Abs(x)))

(* n / d rounded to the nearest integer, d > 0 *)
RoundDiv(n, d) ==
  IF n >= 0 THEN (2 * n + d) \div (2 * d)
            ELSE 0 - ((2 * (0 - n) + d) \div (2 * d))

(* one bit of the square root: r with bit b set when that still fits *)
SqrtBit(r, b, n) == IF (r + b) * (r + b) <= n THEN r + b ELSE r

(* the integer square root of n < 2^24, bit by bit *)
FloorSqrt(n) ==
  SqrtBit(SqrtBit(SqrtBit(SqrtBit(SqrtBit(SqrtBit(SqrtBit(SqrtBit(SqrtBit(
  SqrtBit(SqrtBit(SqrtBit(0, 2048, n), 1024, n), 512, n), 256, n), 128, n),
  64, n), 32, n), 16, n), 8, n), 4, n), 2, n), 1, n)

(* float + float *)
FAdd(a, b) ==
  IF IsNaN(a) \/ IsNaN(b) THEN NaN
  ELSE IF IsInf(a) /\ IsInf(b) THEN (IF a = b THEN a ELSE NaN)
  ELSE IF IsInf(a) THEN a
  ELSE IF IsInf(b) THEN b
  ELSE Fl(a + b)

FNeg(a) == IF IsNaN(a) THEN NaN ELSE 0 - a

(* float - float *)
FSub(a, b) == FAdd(a, FNeg(b))

(* float * float *)
FMul(a, b) ==
  IF IsNaN(a) \/ IsNaN(b) THEN NaN
  ELSE IF IsInf(a) \/ IsInf(b)
    THEN (IF a = 0 \/ b = 0 THEN NaN ELSE SignedInf(Sign(a) * Sign(b)))
  ELSE Fl(RoundDiv(a * b, ONE))

(* float / float *)
FDiv(a, b) ==
  IF IsNaN(a) \/ IsNaN(b) THEN NaN
  ELSE IF IsInf(a) THEN (IF IsInf(b) THEN NaN
                         ELSE SignedInf(Sign(a) * (IF b < 0 THEN 0 - 1 ELSE 1)))
  ELSE IF IsInf(b) THEN 0
  ELSE IF b = 0 THEN (IF a = 0 THEN NaN ELSE SignedInf(a))
  ELSE Fl(Sign(b) * RoundDiv(a * ONE, Abs(b)))

(* the integer nearest to the square root of n, given its floor r *)
SqrtRound(n, r) == IF n - r * r > r THEN r + 1 ELSE r

(* sqrtf *)
FSqrt(a) ==
  IF IsNaN(a) \/ a < 0 THEN NaN
  ELSE IF IsInf(a) THEN PosInf
  ELSE Fl(SqrtRound(a * ONE, FloorSqrt(a * ONE)))

(* a < b of two floats: false when either is NaN *)
FLt(a, b) == ~IsNaN(a) /\ ~IsNaN(b) /\ a < b
FGe(a, b) == ~IsNaN(a) /\ ~IsNaN(b) /\ a >= b

(* fmodf(x, y) for finite y > 0: exact, with the sign of x *)
Fmodf(x, y) ==
  IF IsNaN(x) \/ IsInf(x) THEN NaN ELSE Sign(x) * (Abs(x) % y)

(* the finite floats of magnitude at most m *)
Floats(m) == {x \in (0 - m)..m : Fl(x) = x}

(* the float nearest to n / d *)
FConst(n, d) == Fl(RoundDiv(n * ONE, d))

(* the float nearest to the exact value n / d units, d > 0 *)
FlRatio(n, d) ==
  Overflow(n, RoundToUlp(Abs(n), d * Ulp(Abs(n) \div d)) \div d)

(* arctangents of 2^-i, i = 0..12, in units of 1/ONE^2 rad; pi likewise *)
AtanTable ==
  <<51472, 30386, 16055, 8150, 4091, 2047, 1024, 512, 256, 128, 64, 32, 16>>
PI_FINE == 205887

(* the angle of the vector (x, y), x >= 0, in units of 1/ONE^2 rad, by     *)
(* rotating it onto the x axis in steps of the table                       *)
RECURSIVE Cordic(_, _, _, _)
Cordic(x, y, z, i) ==
  IF i > Len(AtanTable) \/ y = 0 THEN z
  ELSE IF y > 0
    THEN Cordic(x + RoundDiv(y, 2 ^ (i - 1)), y - RoundDiv(x, 2 ^ (i - 1)),
                z + AtanTable[i], i + 1)
    ELSE Cordic(x - RoundDiv(y, 2 ^ (i - 1)), y + RoundDiv(x, 2 ^ (i - 1)),
                z - AtanTable[i], i + 1)

(* the angle of the finite vector (x, y), any quadrant, in 1/ONE^2 rad; a *)
(* zero y counts as +0                                                     *)
FineAngle(y, x) ==
  IF x = 0 /\ y = 0 THEN 0
  ELSE IF x >= 0 THEN Cordic(x, y, 0, 1)
  ELSE IF y >= 0 THEN PI_FINE - Cordic(0 - x, y, 0, 1)
  ELSE 0 - PI_FINE - Cordic(0 - x, y, 0, 1)

(* the direction of an infinite operand of atan2: -1, 0 or 1 *)
InfDir(a) == IF IsInf(a) THEN Sign(a) ELSE 0

(* std::atan2 on floats *)
Atan2(y, x) ==
  IF IsNaN(y) \/ IsNaN(x) THEN NaN
  ELSE IF IsInf(y) \/ IsInf(x)
    THEN FlRatio(FineAngle(InfDir(y) * ONE, InfDir(x) * ONE), ONE)
  ELSE FlRatio(FineAngle(y * ONE, x * ONE), ONE)

(* std::asin on floats: NaN outside [-1, 1] *)
Asin(x) ==
  IF IsNaN(x) \/ IsInf(x) \/ Abs(x) > ONE THEN NaN
  ELSE IF x = 0 THEN 0
  ELSE FlRatio(FineAngle(16 * x, FloorSqrt((ONE * ONE - x * x) * 256)), ONE)

(* ------------------------- Type::CycleValue ---------------------------- *)
(* M_2PI is the float literal 6.28318530717958647692f.  bsp.hpp includes   *)
(* <cmath> before its own "#ifndef M_PI", so M_PI is the double of the C   *)
(* library: it lies below the float nearest to pi, which is M_2PI / 2.     *)
M_2PI == 1616
M_PI == 804

(* the floats a caller passes: the eighths of a turn up to two turns either *)
(* way, and the smallest floats on both sides of zero                      *)
MaxEighths == 16
FloatArgs ==
  {FConst(k * 31416, 40000) : k \in (0 - MaxEighths)..MaxEighths}
    \cup {0 - 1, 1}

(* static float Calculate(float value) *)
Calculate(value) ==
  IF FLt(Fmodf(value, M_2PI), 0)
    THEN FAdd(Fmodf(value, M_2PI), M_2PI)
    ELSE Fmodf(value, M_2PI)

(* while (value_ >= M_2PI) value_ -= M_2PI; *)
RECURSIVE WhileGeTurn(_)
WhileGeTurn(v) == IF FGe(v, M_2PI) THEN WhileGeTurn(FSub(v, M_2PI)) ELSE v

(* while (value_ < 0) value_ += M_2PI; *)
RECURSIVE WhileNegative(_)
WhileNegative(v) == IF FLt(v, 0) THEN WhileNegative(FAdd(v, M_2PI)) ELSE v

(* CycleValue(const CycleValue& value) *)
CopyConstruct(v) == WhileNegative(WhileGeTurn(v))

(* while (ans >= M_PI) ans -= M_2PI;  (the comparison is made in double) *)
RECURSIVE WhileGeHalf(_)
WhileGeHalf(ans) ==
  IF FGe(ans, M_PI) THEN WhileGeHalf(FSub(ans, M_2PI)) ELSE ans

(* while (ans < -M_PI) ans += M_2PI; *)
RECURSIVE WhileLtHalf(_)
WhileLtHalf(ans) ==
  IF FLt(ans, 0 - M_PI) THEN WhileLtHalf(FAdd(ans, M_2PI)) ELSE ans

(* float operator-(const CycleValue& value), on the two value_ members *)
MinusCycle(a, b) == WhileLtHalf(WhileGeHalf(FSub(a, b)))

(* float operator-(const float& raw_value) *)
MinusFloat(a, raw_value) == MinusCycle(a, Calculate(raw_value))

(* CycleValue operator+(const float& value), operator+= : the new value_ *)
PlusFloat(a, value) == Calculate(FAdd(value, a))

(* CycleValue operator-() *)
Negate(a) == Calculate(FSub(M_2PI, a))

(* no CycleValue under test *)
CycleIdle == cv = 0 /\ cv_op = "idle" /\ cv_arg = 0 /\ cv_ans = 0

(* ------------------- the filter's arithmetic (floats) ------------------ *)

Vec(x, y, z) == [x |-> x, y |-> y, z |-> z]
Quat(q0, q1, q2, q3) == [q0 |-> q0, q1 |-> q1, q2 |-> q2, q3 |-> q3]

(* quat_ as the constructor leaves it: {-1, 0, 0, 0} *)
QuatSeed == Quat(0 - ONE, 0, 0, 0)

(* #define M_1G 9.80665f *)
M_1G == FConst(980665, 100000)

(* #define GRAVITY 9.84f *)
GRAVITY == FConst(984, 100)

(* beta_imu as a float, from the gain in hundredths *)
BetaFloat(b) == FConst(b, 100)

(* a test that lets the feedback run only when no axis is zero *)
AccelValidEveryAxis(a) == (a.x # 0) /\ (a.y # 0) /\ (a.z # 0)

(* !((ax == 0.0f) && (ay == 0.0f) && (az == 0.0f)) *)
AccelValid(a) == ~((a.x = 0) /\ (a.y = 0) /\ (a.z = 0))

(* rate of change of quaternion from gyroscope: q_dot1 .. q_dot4 *)
GyroRate(q, g) ==
  LET h == FConst(1, 2)
  IN  Quat(FMul(h, FSub(FSub(FMul(FNeg(q.q1), g.x), FMul(q.q2, g.y)),
                        FMul(q.q3, g.z))),
           FMul(h, FSub(FAdd(FMul(q.q0, g.x), FMul(q.q2, g.z)),
                        FMul(q.q3, g.y))),
           FMul(h, FAdd(FSub(FMul(q.q0, g.y), FMul(q.q1, g.z)),
                        FMul(q.q3, g.x))),
           FMul(h, FSub(FAdd(FMul(q.q0, g.z), FMul(q.q1, g.y)),
                        FMul(q.q2, g.x))))

(* q0^2 + q1^2 + q2^2 + q3^2 as the code sums it *)
NormSquared(q) ==
  FAdd(FAdd(FAdd(FMul(q.q0, q.q0), FMul(q.q1, q.q1)), FMul(q.q2, q.q2)),
       FMul(q.q3, q.q3))

(* the sum of the squares of the components c, in units of 1/ONE^2 *)
RECURSIVE SumSquares(_)
SumSquares(c) ==
  IF c = <<>> THEN 0 ELSE Head(c) * Head(c) + SumSquares(Tail(c))

(* components whose squares a float still holds although they are below    *)
(* the unit 1/ONE: a float has an exponent, the squares do not vanish      *)
FineRange(c) ==
  /\ \A i \in 1..Len(c) : IsFinite(c[i]) /\ Abs(c[i]) < 4096
  /\ SumSquares(c) < 2 ^ 24

(* sqrtf of the sum of squares: of the exact sum where the squares are     *)
(* small, of the float sum sum_f elsewhere                                 *)
SqrtSumSquares(c, sum_f) ==
  IF FineRange(c)
    THEN Fl(SqrtRound(SumSquares(c), FloorSqrt(SumSquares(c))))
    ELSE FSqrt(sum_f)

(* recip_norm = 1.0f / sqrtf(...) of a quaternion and of a vector *)
RecipNorm4(q) ==
  FDiv(ONE, SqrtSumSquares(<<q.q0, q.q1, q.q2, q.q3>>, NormSquared(q)))
RecipNorm3(a) ==
  FDiv(ONE, SqrtSumSquares(<<a.x, a.y, a.z>>,
                           FAdd(FAdd(FMul(a.x, a.x), FMul(a.y, a.y)),
                                FMul(a.z, a.z))))

Scale4(q, rn) ==
  Quat(FMul(q.q0, rn), FMul(q.q1, rn), FMul(q.q2, rn), FMul(q.q3, rn))
Scale3(a, rn) == Vec(FMul(a.x, rn), FMul(a.y, rn), FMul(a.z, rn))

(* normalise accelerometer measurement *)
NormaliseAccel(a) == Scale3(a, RecipNorm3(a))

(* auxiliary variables: q_2qi, q_4qi, q_8qi, qiqi *)
Q2(x) == FMul(FConst(2, 1), x)
Q4(x) == FMul(FConst(4, 1), x)
Q8(x) == FMul(FConst(8, 1), x)
Sq(x) == FMul(x, x)

(* gradient descent corrective step s0 .. s3, a the normalised accel *)
S0(q, a) ==
  FSub(FAdd(FAdd(FMul(Q4(q.q0), Sq(q.q2)), FMul(Q2(q.q2), a.x)),
            FMul(Q4(q.q0), Sq(q.q1))), FMul(Q2(q.q1), a.y))
S1(q, a) ==
  FAdd(FAdd(FAdd(FSub(FSub(FAdd(FSub(FMul(Q4(q.q1), Sq(q.q3)),
       FMul(Q2(q.q3), a.x)), FMul(Q4(Sq(q.q0)), q.q1)),
       FMul(Q2(q.q0), a.y)), Q4(q.q1)), FMul(Q8(q.q1), Sq(q.q1))),
       FMul(Q8(q.q1), Sq(q.q2))), FMul(Q4(q.q1), a.z))
S2(q, a) ==
  FAdd(FAdd(FAdd(FSub(FSub(FAdd(FAdd(FMul(Q4(Sq(q.q0)), q.q2),
       FMul(Q2(q.q0), a.x)), FMul(Q4(q.q2), Sq(q.q3))), FMul(Q2(q.q3), a.y)),
       Q4(q.q2)), FMul(Q8(q.q2), Sq(q.q1))), FMul(Q8(q.q2), Sq(q.q2))),
       FMul(Q4(q.q2), a.z))
S3(q, a) ==
  FSub(FAdd(FSub(FMul(Q4(Sq(q.q1)), q.q3), FMul(Q2(q.q1), a.x)),
            FMul(Q4(Sq(q.q2)), q.q3)), FMul(Q2(q.q2), a.y))
GradientStep(q, a) == Quat(S0(q, a), S1(q, a), S2(q, a), S3(q, a))

(* normalise step magnitude / normalise quaternion *)
Normalise4(q) == Scale4(q, RecipNorm4(q))

(* the normalised gradient-descent step for a valid accel *)
Feedback(q, a) == Normalise4(GradientStep(q, NormaliseAccel(a)))

(* apply feedback step: q_dot -= beta_imu * s *)
ApplyFeedback(qd, beta, s) ==
  Quat(FSub(qd.q0, FMul(beta, s.q0)), FSub(qd.q1, FMul(beta, s.q1)),
       FSub(qd.q2, FMul(beta, s.q2)), FSub(qd.q3, FMul(beta, s.q3)))

(* quat_.qi += q_doti * dt_ *)
AddScaled(q, qd, dt) ==
  Quat(FAdd(q.q0, FMul(qd.q0, dt)), FAdd(q.q1, FMul(qd.q1, dt)),
       FAdd(q.q2, FMul(qd.q2, dt)), FAdd(q.q3, FMul(qd.q3, dt)))

(* integrate the rate of change and normalise the quaternion *)
Integrate(q, qd, dt) == Normalise4(AddScaled(q, qd, dt))

(* the arithmetic of AHRS::Update on the loaded accel, gyro, dt_ and gain *)
UpdateQuat(q, a, g, dt, beta) ==
  IF AccelValid(a)
    THEN Integrate(q, ApplyFeedback(GyroRate(q, g), beta, Feedback(q, a)), dt)
    ELSE Integrate(q, GyroRate(q, g), dt)

(* ------------------ the filter cycle on float values ------------------- *)
MaxCyclesF == 2
MaxSamplesF == 2

(* samples the sensor task delivers: still, flat, tilted; at rest or turning *)
AccelSamples ==
  {Vec(0, 0, 0), Vec(0, 0, GRAVITY), Vec(FConst(1, 4), 0, GRAVITY)}
GyroSamples == {Vec(0, 0, 0), Vec(ONE, 0, 0)}

(* dt_ in seconds: no time or 1/8 s between two Updates *)
DtSamples == {0, FConst(1, 8)}

(* Eigen's Quaternion::toRotationMatrix, by rows *)
ToRotationMatrix(q) ==
  LET two == FConst(2, 1)
      tx == FMul(two, q.q1)
      ty == FMul(two, q.q2)
      tz == FMul(two, q.q3)
      twx == FMul(tx, q.q0)
      twy == FMul(ty, q.q0)
      twz == FMul(tz, q.q0)
      txx == FMul(tx, q.q1)
      txy == FMul(ty, q.q1)
      txz == FMul(tz, q.q1)
      tyy == FMul(ty, q.q2)
      tyz == FMul(tz, q.q2)
      tzz == FMul(tz, q.q3)
  IN  << Vec(FSub(ONE, FAdd(tyy, tzz)), FSub(txy, twz), FAdd(txz, twy)),
         Vec(FAdd(txy, twz), FSub(ONE, FAdd(txx, tzz)), FSub(tyz, twx)),
         Vec(FSub(txz, twy), FAdd(tyz, twx), FSub(ONE, FAdd(txx, tyy))) >>

Dot(r, v) == FAdd(FAdd(FMul(r.x, v.x), FMul(r.y, v.y)), FMul(r.z, v.z))

(* r * accel *)
MatVec(r, v) == Vec(Dot(r[1], v), Dot(r[2], v), Dot(r[3], v))

Cross(a, b) ==
  Vec(FSub(FMul(a.y, b.z), FMul(a.z, b.y)),
      FSub(FMul(a.z, b.x), FMul(a.x, b.z)),
      FSub(FMul(a.x, b.y), FMul(a.y, b.x)))

(* q.inverse(): the conjugate over the squared norm *)
QuatInverse(q) ==
  LET n2 == NormSquared(q)
  IN  IF FLt(0, n2)
        THEN Quat(FDiv(q.q0, n2), FDiv(FNeg(q.q1), n2), FDiv(FNeg(q.q2), n2),
                  FDiv(FNeg(q.q3), n2))
        ELSE Quat(0, 0, 0, 0)

(* quaternion * vector: v + w * uv + vec x uv with uv = 2 (vec x v) *)
QuatRotate(q, v) ==
  LET u == Vec(q.q1, q.q2, q.q3)
      c == Cross(u, v)
      uv == Vec(FAdd(c.x, c.x), FAdd(c.y, c.y), FAdd(c.z, c.z))
      w == Cross(u, uv)
  IN  Vec(FAdd(FAdd(v.x, FMul(q.q0, uv.x)), w.x),
          FAdd(FAdd(v.y, FMul(q.q0, uv.y)), w.y),
          FAdd(FAdd(v.z, FMul(q.q0, uv.z)), w.z))

(* a gravity correction with the wrong sign *)
AddGravity(v, g) == Vec(v.x, v.y, FAdd(v.z, g))

(* accel_world[2] -= g *)
SubtractGravity(v, g) == Vec(v.x, v.y, FSub(v.z, g))

(* the arithmetic of AHRS::AccelRemoveGravity *)
RemoveGravity(q, a) ==
  QuatRotate(QuatInverse(q),
             SubtractGravity(MatVec(ToRotationMatrix(q), a), GRAVITY))

(* AHRS::GetEulr of the revision with RunUnitTest: std::atan2 and std::asin *)
(* of the quaternion products, each assigned to a CycleValue member        *)
(* (operator=(const float&), which stores Calculate of the angle)          *)
EulrYaw(q) ==
  Atan2(FMul(FConst(2, 1), FAdd(FMul(q.q0, q.q3), FMul(q.q1, q.q2))),
        FSub(ONE, FMul(FConst(2, 1), FAdd(FMul(q.q3, q.q3), FMul(q.q2, q.q2)))))
EulrPitch(q) ==
  Asin(FMul(FConst(2, 1), FSub(FMul(q.q0, q.q2), FMul(q.q1, q.q3))))
EulrRoll(q) ==
  Atan2(FMul(FConst(2, 1), FAdd(FMul(q.q0, q.q1), FMul(q.q2, q.q3))),
        FSub(ONE, FMul(FConst(2, 1), FAdd(FMul(q.q2, q.q2), FMul(q.q1, q.q1)))))
GetEulrOf(q) ==
  [pit |-> Calculate(EulrPitch(q)), rol |-> Calculate(EulrRoll(q)),
   yaw |-> Calculate(EulrYaw(q))]

(* RunUnitTest's normalize_angle: rad is a float, M_PI a double, so the    *)
(* comparisons and the sums are made in double and the sum is rounded back *)
RECURSIVE WhileGtPi(_)
WhileGtPi(rad) ==
  IF FLt(M_PI, rad) THEN WhileGtPi(FSub(rad, 2 * M_PI)) ELSE rad
RECURSIVE WhileLtMinusPi(_)
WhileLtMinusPi(rad) ==
  IF FLt(rad, 0 - M_PI) THEN WhileLtMinusPi(FAdd(rad, 2 * M_PI)) ELSE rad
NormalizeAngle(rad) == WhileLtMinusPi(WhileGtPi(rad))

(* const float tolerance = 0.1f *)
TOLERANCE == FConst(1, 10)

(* std::abs(norm) < tolerance *)
WithinTolerance(value) == FLt(Abs(NormalizeAngle(value)), TOLERANCE)

(* the verdict RunUnitTest prints *)
Verdict(e) ==
  IF WithinTolerance(e.rol) /\ WithinTolerance(e.pit) /\ WithinTolerance(e.yaw)
    THEN "passed" ELSE "failed"

(* dt_ = 0.001f *)
DT_FIXED == FConst(1, 1000)

(* quat_ = {1.0f, 0.0f, 0.0f, 0.0f} and accel_ = {0.01f, 0.01f, 1.0f} of   *)
(* RunUnitTest                                                             *)
QuatIdentity == Quat(ONE, 0, 0, 0)
AccelUnitTest == Vec(FConst(1, 100), FConst(1, 100), ONE)

(* still accelerometer vectors, Z up: flat (in m/s^2, in g and as the     *)
(* filter's GRAVITY) and tilted by up to 0.3 m/s^2 on X or Y              *)
MaxTilt == 3
RestAccels ==
  {Vec(0, 0, M_1G), Vec(0, 0, ONE), Vec(0, 0, GRAVITY), AccelUnitTest}
    \cup {Vec(FConst(k, 10), 0, M_1G) : k \in 1..MaxTilt}
    \cup {Vec(0, FConst(0 - k, 10), M_1G) : k \in 1..MaxTilt}

LastInit == [q |-> QuatSeed, a |-> Vec(0, 0, 0), g |-> Vec(0, 0, 0),
             dt |-> 0, beta |-> 0, after_skip |-> FALSE]

(* the float-valued filter outside the specifications that do not run it *)
FloatIdle ==
  /\ quat_f = QuatSeed
  /\ accel_f = Vec(0, 0, 0) /\ gyro_f = Vec(0, 0, 0)
  /\ filtered_accel_f = Vec(0, 0, 0)
  /\ pc_f = "idle" /\ cycles_f = 0 /\ samples_f = 0
  /\ last_f = LastInit
  /\ grav_f = [q |-> QuatSeed, a |-> Vec(0, 0, 0)]
  /\ eulr_f = [pit |-> 0, rol |-> 0, yaw |-> 0] /\ test_f = "none"

(* Type::Eulr: three CycleValue members, each default-constructed to 0 *)
Eulr(pit, rol, yaw) == [pit |-> pit, rol |-> rol, yaw |-> yaw]

(* AHRS::RemoveYaw without the yaw-stripping assignment *)
RemoveYawKeepsYaw(e) == Eulr(e.pit, e.rol, e.yaw)

(* AHRS::RemoveYaw: eulr_without_yaw_.pit = eulr_.pit; .rol = eulr_.rol;  *)
(* (the defaulted copy assignment copies value_) and .yaw = 0.0f           *)
(* (operator=(const float&)), as a function of eulr_                        *)
RemoveYawOf(e) == Eulr(e.pit, e.rol, Calculate(0))

(* the floats toEulerAngle hands to GetEulr: the quarter turns of          *)
(* [-pi, pi] and the smallest negative float                               *)
MaxQuarters == 2
EulerArgs ==
  {FConst(k * 31416, 20000) : k \in (0 - MaxQuarters)..MaxQuarters}
    \cup {0 - 1}

(* no Euler angles under test *)
EulrIdle ==
  /\ eulr_v = Eulr(0, 0, 0) /\ eulr_without_yaw_v = Eulr(0, 0, 0)
  /\ pc_e = "idle"

(* ------------------------- class InferenceEngine ----------------------- *)
(* a message: the topic it was published on and its number; the members   *)
(* of the engine are value-initialised ({}), which is message 0 of no      *)
(* topic                                                                   *)
Msg(topic, seq) == [topic |-> topic, seq |-> seq]
NoMsg == Msg("none", 0)

(* the topics of the program: "accel" and "gyro" are created and published *)
(* by Mpu9250 (raw readings), the other three by AHRS                      *)
TopicNames ==
  {"accel", "gyro", "eulr", "eulr_without_yaw", "gravity_free_accel"}

(* the two revisions of class InferenceEngine in comp_inference.hpp *)
Revisions == {"first", "second"}

(* the topic each callback is registered on: LibXR::Topic::Find(name) *)
AccelTopic(rev) == "accel"
GyroTopic(rev) == "gyro"
EulrTopic(rev) == IF rev = "first" THEN "eulr" ELSE "eulr_without_yaw"

(* one float of the feature buffer: the member and field it was read from *)
(* and whether it was divided by GRAVITY                                   *)
Value(field, m, per_g) ==
  [field |-> field, topic |-> m.topic, seq |-> m.seq, per_g |-> per_g]

(* the push_back calls of CollectSensorData, in their order *)
Sample(rev, e, g, a) ==
  IF rev = "first"
    THEN << Value("pit", e, FALSE), Value("rol", e, FALSE),
            Value("x", g, FALSE), Value("y", g, FALSE), Value("z", g, FALSE),
            Value("x", a, TRUE), Value("y", a, TRUE), Value("z", a, TRUE) >>
    ELSE << Value("x", a, TRUE), Value("y", a, TRUE), Value("z", a, TRUE) >>

(* while (sensor_buffer_.size() > input_tensor_size_) pop_front(); *)
RECURSIVE PopFront(_, _)
PopFront(buf, size) ==
  IF Len(buf) > size THEN PopFront(Tail(buf), size) ELSE buf

(* CollectSensorData: the buffer afterwards *)
CollectSensorData(rev, buf, size, e, g, a) ==
  PopFront(buf \o Sample(rev, e, g, a), size)

(* InferenceTask: whether this wake-up passes the window to RunInference *)
RunsInference(rev, counter, ndn, buf, size) ==
  IF rev = "first"
    THEN counter >= ndn /\ Len(buf) >= size
    ELSE Len(buf) = size

(* an update counter that is never reset *)
NextCounterKeeps(rev, counter, ndn) == counter + 1

(* InferenceTask: update_counter after this wake-up *)
NextCounter(rev, counter, ndn) ==
  IF rev = "first"
    THEN (IF counter >= ndn THEN 0 ELSE counter + 1)
    ELSE (IF counter = ndn THEN 1 ELSE counter + 1)

(* the window given to RunInference *)
Window(rev, buf, size) ==
  IF rev = "first" THEN SubSeq(buf, 1, size) ELSE buf

(* the window sizes of the model (the product of its input shape) and the *)
(* values of new_data_number_ (input_shape_[1] * update_ratio, truncated) *)
TensorSizes == {3, 8, 12, 16}
MaxNewData == 1
NewDataNumbers == 0..MaxNewData

(* the number of messages published *)
MaxPubs == 4

(* enum class ModelOutput : int8_t, the categories the model tells apart   *)
(* here, and their order in a std::map<ModelOutput, int>                   *)
ModelOutput == {"UNRECOGNIZED", "SHAKE_FORWARD", "STILL"}
EnumValue ==
  [l \in ModelOutput |->
     IF l = "UNRECOGNIZED" THEN 0 - 1 ELSE IF l = "SHAKE_FORWARD" THEN 5 ELSE 9]

(* static const std::map<ModelOutput, std::string> LABELS *)
LABELS ==
  [l \in ModelOutput |->
     IF l = "UNRECOGNIZED" THEN "Unrecognized"
     ELSE IF l = "SHAKE_FORWARD" THEN "Shake Forward" ELSE "Still"]

(* one output of the model: the class of the highest probability (never   *)
(* UNRECOGNIZED, which is no index of the output tensor) and its value    *)
Answer(class, prob) == [class |-> class, prob |-> prob]
NoAnswer == Answer("STILL", 0)

(* a top probability below confidence_threshold_ makes the prediction     *)
(* UNRECOGNIZED                                                            *)
PredClass(answer, threshold) ==
  IF FLt(answer.prob, threshold) THEN "UNRECOGNIZED" ELSE answer.class

(* a history that is never shortened *)
PushHistoryUnbounded(history, label, size) == Append(history, label)

(* prediction_history_.push_back(...); if (size() > history_size_)         *)
(* pop_front();                                                            *)
PushHistory(history, label, size) ==
  IF Len(Append(history, label)) > size
    THEN Tail(Append(history, label)) ELSE Append(history, label)

(* votes[label] after the loop over prediction_history_ *)
Votes(history, label) ==
  Cardinality({i \in 1..Len(history) : history[i] = label})

(* std::max_element over the votes map: the first of the labels with the  *)
(* most votes, in the order of the enumeration                             *)
Consensus(history) ==
  CHOOSE l \in ModelOutput :
    /\ Votes(history, l) > 0
    /\ \A m \in ModelOutput :
         \/ Votes(history, m) < Votes(history, l)
         \/ Votes(history, m) = Votes(history, l)
              /\ EnumValue[l] <= EnumValue[m]

(* the string RunInference returns, from the history after the push *)
RunInferenceResult(history, min_votes) ==
  IF Votes(history, Consensus(history)) >= min_votes
    THEN LABELS[Consensus(history)] ELSE "No Action"

(* InferenceEngine(model_path, 0.01f, 0.7f, 15, 3) of main *)
CONFIDENCE_THRESHOLD == FConst(7, 10)
HISTORY_SIZE == 15
MIN_CONSENSUS_VOTES == 3

(* what the model answers in the task: a confident gesture or a doubtful   *)
(* one; and in the calls of RunInference taken alone: two classes, each   *)
(* below, at and above the threshold                                       *)
TaskAnswers == {Answer("SHAKE_FORWARD", ONE), Answer("STILL", FConst(1, 2))}
ModelAnswers ==
  {Answer(c, p) : c \in {"SHAKE_FORWARD", "STILL"},
                  p \in {FConst(1, 2), CONFIDENCE_THRESHOLD, ONE}}

(* the history sizes and vote thresholds RunInference is tried with *)
MaxHistory == 3
MaxVotes == 2
MaxInferences == 4

(* no call of RunInference yet, the parameters as main passes them *)
VoteInit ==
  /\ prediction_history_ = << >> /\ history_size_ = HISTORY_SIZE
  /\ min_consensus_votes_ = MIN_CONSENSUS_VOTES
  /\ confidence_threshold_ = CONFIDENCE_THRESHOLD
  /\ last_answer = NoAnswer /\ result = "" /\ inferences = 0
  /\ last_result = "" /\ announced = << >>

(* a task that prints every prediction that is a gesture *)
AnnouncesRepeated(res, last) == res # "Unrecognized" /\ res # "No Action"

(* InferenceTask: if (last_result != result && result != "Unrecognized"   *)
(* && result != "No Action")                                               *)
Announces(res, last) ==
  last # res /\ res # "Unrecognized" /\ res # "No Action"

(* no classifier under test *)
InferIdle ==
  /\ i_rev = "first" /\ input_tensor_size_ = 0 /\ new_data_number_ = 0
  /\ i_eulr = NoMsg /\ i_gyro = NoMsg /\ i_accel = NoMsg
  /\ i_ready = 0 /\ sensor_buffer_ = << >> /\ i_pc = "idle"
  /\ update_counter = 0 /\ pubs = 0 /\ collected = << >>
  /\ windows = << >> /\ wakeups = 0 /\ run_at = << >>
  /\ VoteInit

(* ------------------ class FluxSand and class ModeManager ---------------- *)
(* enum class Mode *)
TIME == 0
HUMIDITY == 1
TEMPERATURE == 2
STOPWATCH == 3
TIMER == 4
MODE_NUM == 5

(* AdjustTimer(+300), AdjustTimer(-300) and its upper clamp 60 * 99 - 1 *)
ADJUST_SEC == 300
TIMER_MAX_SEC == 5939

(* the gestures the handler acts on *)
Gestures == {"TILT_RIGHT", "TILT_LEFT", "SHAKE_FORWARD", "SHAKE_BACKWARD"}

(* the two revisions of class FluxSand: src/controller/fluxsand.hpp with   *)
(* ModeManager, InputHandler and InferenceHandler, and the earlier single  *)
(* class of part_014                                                       *)
CtlRevisions == {"controller", "part_014"}

(* ModeManager::NextMode *)
NextMode(m) == (m + 1) % MODE_NUM

(* std::clamp(v, lo, hi) *)
Clamp(v, lo, hi) == IF v < lo THEN lo ELSE IF v > hi THEN hi ELSE v

(* GetRemainingTimerSeconds: whether the countdown is found expired, and   *)
(* the value returned                                                      *)
TimerExpired(active, now, start, duration) ==
  active /\ now - start >= duration
RemainingSeconds(active, now, start, duration) ==
  IF ~active THEN duration
  ELSE IF now - start >= duration THEN 0
  ELSE duration - (now - start)

(* the bounds of one run: clock advances, button presses, gestures *)
MaxAdvances == 2
MaxPresses == 5
MaxGestures == 3

(* what the steady clock advances by between two readings: a second, or *)
(* five minutes                                                        *)
AdvanceSeconds == {1, ADJUST_SEC}

(* the members the handlers read and write, as one record *)
Members ==
  [mode |-> mode_, landscape |-> landscape_,
   running |-> stopwatch_running_, sw_start |-> stopwatch_start_time_,
   sw_elapsed |-> stopwatch_elapsed_sec_, active |-> timer_active_,
   start |-> timer_start_time_, duration |-> timer_duration_sec_,
   max |-> max_duration_sec_, sand |-> sand_enable_, reset |-> reset_]

(* ModeManager::StartTimer followed by gui_->Reset() (FluxSand::StartTimer); *)
(* the StartTimer of part_014 keeps no maximum and resets no sand            *)
StartTimer(rev, m, duration_sec, now) ==
  IF rev = "controller"
    THEN [m EXCEPT !.duration = duration_sec, !.max = duration_sec,
                   !.start = now, !.active = TRUE, !.mode = TIMER,
                   !.reset = TRUE]
    ELSE [m EXCEPT !.duration = duration_sec, !.start = now,
                   !.active = TRUE, !.mode = TIMER]

(* ModeManager::StopTimer; the StopTimer of part_014 keeps the duration *)
StopTimer(rev, m) ==
  IF rev = "controller"
    THEN [m EXCEPT !.active = FALSE, !.duration = 0]
    ELSE [m EXCEPT !.active = FALSE]

(* an adjustment that is not clamped *)
AdjustTimerUnclamped(m, delta_sec) ==
  IF ~m.active THEN [m EXCEPT !.duration = m.duration + delta_sec] ELSE m

(* ModeManager::AdjustTimer *)
AdjustTimer(m, delta_sec) ==
  IF ~m.active
    THEN [m EXCEPT !.duration = Clamp(m.duration + delta_sec, 0, TIMER_MAX_SEC)]
    ELSE m

(* a start that restarts a running stopwatch *)
StartStopwatchAlways(m, now) ==
  [m EXCEPT !.sw_start = now, !.running = TRUE, !.mode = STOPWATCH]

(* StartStopwatch, StopStopwatch *)
StartStopwatch(m, now) ==
  IF ~m.running
    THEN [m EXCEPT !.sw_start = now, !.running = TRUE, !.mode = STOPWATCH]
    ELSE m
StopStopwatch(m) ==
  IF m.running THEN [m EXCEPT !.running = FALSE, !.sw_elapsed = 0] ELSE m

(* the button 1 callback: NextMode, and SandDisable in InputHandler *)
Button1(rev, m) ==
  IF rev = "controller"
    THEN [m EXCEPT !.mode = NextMode(m.mode), !.sand = FALSE]
    ELSE [m EXCEPT !.mode = NextMode(m.mode)]

(* the button 2 callback *)
Button2(rev, m, now) ==
  IF m.mode = STOPWATCH
    THEN (IF m.running THEN StopStopwatch(m) ELSE StartStopwatch(m, now))
  ELSE IF m.mode = TIMER /\ m.active
    THEN (IF rev = "controller"
            THEN [StopTimer(rev, m) EXCEPT !.sand = FALSE]
            ELSE StopTimer(rev, m))
  ELSE m

(* a gesture callback whose shakes look at neither the mode nor the timer *)
GestureControllerUnguarded(m, g, now) ==
  IF g = "SHAKE_FORWARD" THEN StartTimer("controller", m, m.duration, now)
  ELSE IF g = "SHAKE_BACKWARD"
    THEN [StopTimer("controller", m) EXCEPT !.sand = FALSE]
  ELSE m

(* the gesture callback of InferenceHandler::Init *)
GestureController(m, g, now) ==
  CASE g = "TILT_RIGHT" ->
         IF m.mode = TIMER /\ ~m.active THEN AdjustTimer(m, ADJUST_SEC)
         ELSE IF m.mode = TIME /\ ~m.landscape
           THEN [m EXCEPT !.landscape = TRUE]
         ELSE IF m.mode = TIMER /\ ~m.landscape /\ m.active
           THEN [m EXCEPT !.landscape = TRUE, !.sand = FALSE]
         ELSE m
    [] g = "TILT_LEFT" ->
         IF m.mode = TIMER /\ ~m.active THEN AdjustTimer(m, 0 - ADJUST_SEC)
         ELSE IF m.mode = TIME /\ m.landscape
           THEN [m EXCEPT !.landscape = FALSE]
         ELSE IF m.mode = TIMER /\ m.landscape /\ m.active
           THEN [m EXCEPT !.landscape = FALSE, !.sand = TRUE]
         ELSE m
    [] g = "SHAKE_FORWARD" ->
         IF m.mode = TIMER /\ ~m.active
           THEN StartTimer("controller", m,
                           RemainingSeconds(m.active, now, m.start, m.duration),
                           now)
           ELSE m
    [] g = "SHAKE_BACKWARD" ->
         IF m.mode = TIMER
           THEN [StopTimer("controller", m) EXCEPT !.sand = FALSE]
           ELSE m

(* the first if / else-if of a tilt case in part_014 *)
TiltDuration(m, ok, delta_sec, landscape_from) ==
  IF m.mode = TIMER /\ ok
    THEN (IF ~m.active
            THEN [m EXCEPT !.duration = m.duration + delta_sec] ELSE m)
  ELSE IF m.mode = TIME /\ m.landscape = landscape_from
    THEN [m EXCEPT !.landscape = ~landscape_from]
  ELSE m

(* the second if of a tilt case in part_014 *)
TiltRunning(m, landscape_from) ==
  IF m.mode = TIMER /\ m.active /\ m.landscape = landscape_from
    THEN [m EXCEPT !.landscape = ~landscape_from] ELSE m

(* the gesture callback registered in the constructor of part_014 *)
GestureEarly(m, g, now) ==
  CASE g = "TILT_RIGHT" ->
         TiltRunning(
           TiltDuration(m, m.duration < TIMER_MAX_SEC, ADJUST_SEC, TRUE), TRUE)
    [] g = "TILT_LEFT" ->
         TiltRunning(
           TiltDuration(m, m.duration > ADJUST_SEC, 0 - ADJUST_SEC, FALSE),
           FALSE)
    [] g = "SHAKE_FORWARD" ->
         IF m.mode = TIMER /\ ~m.active
           THEN StartTimer("part_014", m, m.duration, now) ELSE m
    [] g = "SHAKE_BACKWARD" ->
         IF m.mode = TIMER THEN StopTimer("part_014", m) ELSE m

(* the gesture callback of the revision *)
Gesture(rev, m, g, now) ==
  IF rev = "controller" THEN GestureController(m, g, now)
                        ELSE GestureEarly(m, g, now)

(* the members after a handler: every member takes its value from m *)
SetMembers(m) ==
  /\ mode_' = m.mode /\ landscape_' = m.landscape
  /\ stopwatch_running_' = m.running /\ stopwatch_start_time_' = m.sw_start
  /\ stopwatch_elapsed_sec_' = m.sw_elapsed /\ timer_active_' = m.active
  /\ timer_start_time_' = m.start /\ timer_duration_sec_' = m.duration
  /\ max_duration_sec_' = m.max /\ sand_enable_' = m.sand
  /\ reset_' = m.reset

(* no controller under test *)
CtlIdle ==
  /\ c_rev = "controller" /\ mode_ = TIME /\ landscape_ = FALSE
  /\ stopwatch_running_ = FALSE /\ stopwatch_start_time_ = 0
  /\ stopwatch_elapsed_sec_ = 0 /\ timer_active_ = FALSE
  /\ timer_start_time_ = 0 /\ timer_duration_sec_ = 0
  /\ max_duration_sec_ = 0 /\ sand_enable_ = FALSE /\ reset_ = FALSE
  /\ steady = 0 /\ run_pc = "idle" /\ l_mode = TIME
  /\ l_landscape = FALSE /\ l_remaining = 0
  /\ advances = 0 /\ presses = 0 /\ gestures = 0
  /\ expiries = 0 /\ notes = 0 /\ run_disables = 0

(* ------------------------------ class Mpu9250 -------------------------- *)
(* sizeof(gyro_bias_): three floats *)
SIZEOF_VECTOR3 == 12

(* the calibration file: absent, or its size in bytes and, when it holds   *)
(* three floats, those floats                                              *)
NoFile == [size |-> 0 - 1, data |-> Vec(0, 0, 0)]
File(size, data) == [size |-> size, data |-> data]

(* the validation of LoadCalibrationData without its isnan tests *)
InvalidBiasMagnitudeOnly(b) ==
  \/ FLt(ONE, Abs(b.x)) \/ FLt(ONE, Abs(b.y)) \/ FLt(ONE, Abs(b.z))
  \/ IsInf(b.x) \/ IsInf(b.y) \/ IsInf(b.z)

(* std::abs(gyro_bias_.x) > 1.0f || ... || std::isnan(gyro_bias_.x) || ...  *)
(* || std::isinf(gyro_bias_.x) || ...                                      *)
InvalidBias(b) ==
  \/ FLt(ONE, Abs(b.x)) \/ FLt(ONE, Abs(b.y)) \/ FLt(ONE, Abs(b.z))
  \/ IsNaN(b.x) \/ IsNaN(b.y) \/ IsNaN(b.z)
  \/ IsInf(b.x) \/ IsInf(b.y) \/ IsInf(b.z)

(* Mpu9250::LoadCalibrationData: gyro_bias_ after the call, from the file  *)
(* and from gyro_bias_ before the call                                     *)
LoadCalibrationDataOf(file, bias) ==
  IF file = NoFile THEN bias
  ELSE IF file.size # SIZEOF_VECTOR3 THEN Vec(0, 0, 0)
  ELSE IF InvalidBias(file.data) THEN Vec(0, 0, 0)
  ELSE file.data

(* static_cast<int16_t>((data[0] << 8) | data[1]) *)
Int16(hi, lo) ==
  IF hi * 256 + lo >= 32768 THEN hi * 256 + lo - 65536 ELSE hi * 256 + lo

(* GYRO_SCALE = 2000.0f / 32768.0f * M_PI / 180.0f = 0.0010653 rad/s per   *)
(* count: as a float of 7 bits, 70 * 2^-16                                 *)
GYRO_SCALE_MANT == 70

(* static_cast<float>(raw) * GYRO_SCALE *)
ScaleGyro(raw) == FlRatio(raw * GYRO_SCALE_MANT, ONE)

(* one axis of ReadData without the correction *)
ReadGyroAxisUncorrected(hi, lo, bias) == ScaleGyro(Int16(hi, lo))

(* float gyro_x = static_cast<float>(static_cast<int16_t>(...)) *          *)
(*                GYRO_SCALE - gyro_bias_.x                                *)
ReadGyroAxis(hi, lo, bias) == FSub(ScaleGyro(Int16(hi, lo)), bias)

(* the gyro bytes of one register read: high and low byte of X, Y and Z *)
Bytes(xh, xl, yh, yl, zh, zl) ==
  [xh |-> xh, xl |-> xl, yh |-> yh, yl |-> yl, zh |-> zh, zl |-> zl]

(* the floats a calibration file holds: zero, a small bias, the limit 1,   *)
(* the float below -1, NaN and infinity                                    *)
BiasValues == {0, 3, ONE, 0 - (ONE + 2), NaN, PosInf}

(* the files LoadCalibrationData meets: none, short, long, three floats *)
Files ==
  {NoFile} \cup {File(n, Vec(0, 0, 0)) : n \in {0, 8, 16}}
    \cup {File(SIZEOF_VECTOR3, Vec(x, y, z)) : x, y, z \in BiasValues}

(* byte pairs the gyro registers deliver: 0, 1000, -1000 *)
BytePairs == {<<0, 0>>, <<3, 232>>, <<252, 24>>}

MaxReadsD == 1

(* no sensor device running *)
MpuIdle ==
  /\ file_d = NoFile /\ gyro_bias_ = Vec(0, 0, 0)
  /\ gyro_d = Vec(0, 0, 0) /\ gyro_delta_ = Vec(0, 0, 0)
  /\ data_d = Bytes(0, 0, 0, 0, 0, 0) /\ gyro_pub_d = Vec(0, 0, 0)
  /\ pc_d = "idle" /\ reads_d = 0

(* ------------------------------ class SandGrid ------------------------- *)
(* the side of the grid (SIZE is 16 in the source) and the number of      *)
(* grains a run puts on it                                                 *)
SIZE == 3
MaxGrains == 2

(* the two revisions of StepOnce: part_006 (rows from the centre outwards, *)
(* noise of 30 degrees) and comp_sand.hpp (rows from the left, noise of 20 *)
(* degrees)                                                                *)
SandRevisions == {"part_006", "comp_sand"}

(* InBounds, Count and the cell AddNewSand fills (grid[15][15]) *)
Cells == (0..(SIZE - 1)) \X (0..(SIZE - 1))
InBounds(r, c) == r >= 0 /\ r < SIZE /\ c >= 0 /\ c < SIZE
Count(g) == Cardinality(g)
Corner == <<SIZE - 1, SIZE - 1>>

(* AddGrainNearExisting: the empty in-bounds neighbours of the grains *)
Candidates(g) ==
  {n \in Cells \ g :
     \E cell \in g : /\ n[1] - cell[1] \in {0 - 1, 0, 1}
                      /\ n[2] - cell[2] \in {0 - 1, 0, 1}}

(* the gravity angles StepOnce is called with, in degrees, or not a number *)
GravityDegs == {0, 45, 180, NaN}

(* gravity_deg += 225.0f; if (gravity_deg >= 360.0f) gravity_deg -= 360.0f *)
Rotated(deg) == IF deg + 225 >= 360 THEN deg + 225 - 360 ELSE deg + 225

(* std::cos and std::sin of a multiple of 45 degrees, as floats *)
HALF_SQRT2 == FDiv(ONE, FSqrt(2 * ONE))
CosTable ==
  <<ONE, HALF_SQRT2, 0, 0 - HALF_SQRT2, 0 - ONE, 0 - HALF_SQRT2, 0, HALF_SQRT2>>
CosDeg(deg) == CosTable[((deg % 360) \div 45) + 1]
SinDeg(deg) == CosDeg(deg + 270)

(* the gravity vector (gx, gy) of StepOnce *)
GravityX(deg) == IF IsNaN(deg) THEN NaN ELSE CosDeg(Rotated(deg))
GravityY(deg) == IF IsNaN(deg) THEN NaN ELSE SinDeg(Rotated(deg))

(* cos_threshold for the least and the greatest noise of the revision:    *)
(* cos 25 and cos 85 degrees, or cos 35 and cos 75 degrees                *)
CosThresholds(rev) ==
  IF rev = "part_006"
    THEN {FConst(9063, 10000), FConst(872, 10000)}
    ELSE {FConst(8192, 10000), FConst(2588, 10000)}

(* the eight neighbouring directions (dr, dc), in the order of the vector *)
Directions ==
  << <<0 - 1, 0 - 1>>, <<0 - 1, 0>>, <<0 - 1, 1>>, <<0, 0 - 1>>, <<0, 1>>,
     <<1, 0 - 1>>, <<1, 0>>, <<1, 1>> >>

(* the cells of one row from the centre outwards, left before right *)
RECURSIVE CenterOut(_, _)
CenterOut(r, offset) ==
  IF offset >= SIZE THEN << >>
  ELSE (IF SIZE \div 2 - offset >= 0
          THEN << <<r, SIZE \div 2 - offset>> >> ELSE << >>)
       \o (IF SIZE \div 2 + offset < SIZE
             THEN << <<r, SIZE \div 2 + offset>> >> ELSE << >>)
       \o CenterOut(r, offset + 1)

(* the order in which one row is visited *)
RowOrder(rev, r) ==
  IF rev = "part_006"
    THEN << <<r, SIZE \div 2>> >> \o CenterOut(r, 1)
    ELSE [c \in 1..SIZE |-> <<r, c - 1>>]

(* the order in which the cells are visited: rows from the bottom up *)
RECURSIVE TraversalFrom(_, _)
TraversalFrom(rev, r) ==
  IF r < 0 THEN << >> ELSE RowOrder(rev, r) \o TraversalFrom(rev, r - 1)
TraversalOrder == [rev \in SandRevisions |-> TraversalFrom(rev, SIZE - 1)]

(* the neighbour of a cell in a direction *)
Neighbour(cell, d) == <<cell[1] + d[1], cell[2] + d[2]>>

(* float len = std::sqrt(vx * vx + vy * vy) of a direction (dr, dc), and  *)
(* the components vx / len and vy / len of the eight directions            *)
DirLen(d) ==
  FSqrt(FAdd(FMul(d[2] * ONE, d[2] * ONE), FMul(d[1] * ONE, d[1] * ONE)))
DirUnit ==
  [i \in 1..Len(Directions) |->
     [vx |-> FDiv(Directions[i][2] * ONE, DirLen(Directions[i])),
      vy |-> FDiv(Directions[i][1] * ONE, DirLen(Directions[i]))]]

(* dot = vx * gx + vy * gy of the eight directions, per gravity angle *)
DotGravity(i, gx, gy) == FAdd(FMul(DirUnit[i].vx, gx), FMul(DirUnit[i].vy, gy))
DotsOf ==
  [deg \in GravityDegs |->
     [i \in 1..Len(Directions) |->
        DotGravity(i, GravityX(deg), GravityY(deg))]]

(* best_dot = -2.0f and best_move = {0, 0} before the loop over directions *)
NoMove == [dot |-> 0 - 2 * ONE, move |-> <<0, 0>>]

(* a loop over the directions that does not look whether the neighbour is *)
(* empty                                                                   *)
RECURSIVE BestOntoGrains(_, _, _, _, _, _)
BestOntoGrains(g, cell, dots, threshold, i, best) ==
  IF i > Len(Directions) THEN best
  ELSE IF ~InBounds(cell[1] + Directions[i][1], cell[2] + Directions[i][2])
    THEN BestOntoGrains(g, cell, dots, threshold, i + 1, best)
  ELSE IF FLt(threshold, dots[i]) /\ FLt(best.dot, dots[i])
    THEN BestOntoGrains(g, cell, dots, threshold, i + 1,
                        [dot |-> dots[i], move |-> Directions[i]])
  ELSE BestOntoGrains(g, cell, dots, threshold, i + 1, best)

(* the loop over the directions from the i-th on: best_dot and best_move  *)
(* afterwards                                                              *)
RECURSIVE Best(_, _, _, _, _, _)
Best(g, cell, dots, threshold, i, best) ==
  IF i > Len(Directions) THEN best
  ELSE IF \/ ~InBounds(cell[1] + Directions[i][1], cell[2] + Directions[i][2])
          \/ Neighbour(cell, Directions[i]) \in g
    THEN Best(g, cell, dots, threshold, i + 1, best)
  ELSE IF FLt(threshold, dots[i]) /\ FLt(best.dot, dots[i])
    THEN Best(g, cell, dots, threshold, i + 1,
              [dot |-> dots[i], move |-> Directions[i]])
  ELSE Best(g, cell, dots, threshold, i + 1, best)

(* a queue that takes a move whatever other move has the same target *)
QueuedAlways(best_dot, target, occupied_next) == FLt(0 - ONE, best_dot)

(* if (best_dot > -1.0f) ... if (!occupied_next[nr][nc]) *)
Queued(best_dot, target, occupied_next) ==
  FLt(0 - ONE, best_dot) /\ target \notin occupied_next

(* the end of the loop body for one grain: occupied_next and moves after  *)
(* the move to target was queued, or was not                              *)
Queue(cell, best_dot, target, q) ==
  IF Queued(best_dot, target, q.occupied_next)
    THEN [occupied_next |-> q.occupied_next \cup {target},
          moves |-> Append(q.moves, <<cell, target>>)]
    ELSE q

(* the loop body for the grain in a cell *)
Grain(g, cell, dots, threshold, q) ==
  Queue(cell, Best(g, cell, dots, threshold, 1, NoMove).dot,
        Neighbour(cell, Best(g, cell, dots, threshold, 1, NoMove).move), q)

(* the traversal from the i-th cell on: occupied_next and the moves       *)
(* queued. The k-th grain met draws the threshold thresholds[k].          *)
RECURSIVE Decide(_, _, _, _, _, _, _)
Decide(g, order, i, dots, thresholds, k, q) ==
  IF i > Len(order) THEN q
  ELSE IF order[i] \notin g
    THEN Decide(g, order, i + 1, dots, thresholds, k, q)
  ELSE Decide(g, order, i + 1, dots, thresholds, k + 1,
              Grain(g, order[i], dots, thresholds[k], q))

(* the moves StepOnce queues on a grid *)
MovesOf(rev, g, deg, thresholds) ==
  Decide(g, TraversalOrder[rev], 1, DotsOf[deg], thresholds, 1,
         [occupied_next |-> {}, moves |-> << >>]).moves

(* perform all queued moves, one after the other *)
RECURSIVE Perform(_, _)
Perform(g, moves) ==
  IF moves = << >> THEN g
  ELSE Perform((g \ {Head(moves)[1]}) \cup {Head(moves)[2]}, Tail(moves))

(* no grid under test *)
SandIdle ==
  /\ s_rev = "part_006" /\ grid = {} /\ sand_op = "none"
  /\ moves_last = << >>

(* ----------------------- SandGrid::MoveSand, CompGuiX -------------------- *)
(* the cell of the upper grid MoveSand works on (up->grid[0][0]); the     *)
(* cell of the lower grid is Corner (down->grid[15][15])                  *)
TopCell == <<0, 0>>

(* if (angle < 90 || angle > 270) *)
Downward(angle) == FLt(angle, 90) \/ FLt(270, angle)

(* a MoveSand that does not look at the destination cell *)
MoveSandOntoGrain(up, down, angle) ==
  IF Downward(angle)
    THEN (IF TopCell \in up
            THEN [up |-> up \ {TopCell}, down |-> down \cup {Corner},
                  ret |-> TRUE]
            ELSE [up |-> up, down |-> down, ret |-> FALSE])
    ELSE (IF Corner \in down
            THEN [up |-> up \cup {TopCell}, down |-> down \ {Corner},
                  ret |-> TRUE]
            ELSE [up |-> up, down |-> down, ret |-> FALSE])

(* SandGrid::MoveSand: the two grids afterwards and the value returned *)
MoveSandOf(up, down, angle) ==
  IF Downward(angle)
    THEN (IF TopCell \in up /\ Corner \notin down
            THEN [up |-> up \ {TopCell}, down |-> down \cup {Corner},
                  ret |-> TRUE]
            ELSE [up |-> up, down |-> down, ret |-> FALSE])
    ELSE (IF TopCell \notin up /\ Corner \in down
            THEN [up |-> up \cup {TopCell}, down |-> down \ {Corner},
                  ret |-> TRUE]
            ELSE [up |-> up, down |-> down, ret |-> FALSE])

(* SandGrid::SetCell *)
SetCellOf(g, cell, val) ==
  IF InBounds(cell[1], cell[2])
    THEN (IF val THEN g \cup {cell} ELSE g \ {cell})
    ELSE g

(* the angles MoveSand is called with: both sides of 90 and of 270        *)
(* degrees, and not a number                                              *)
MoveAngles == {89, 90, 270, 271, NaN}

(* the grains of the initial fill (128 in the source, half of the cells   *)
(* of a grid) and the steps of the settling phase (16 in the source)      *)
FillCount == MaxGrains - 1
SettleSteps == 2

(* the revision of SandGrid that CompGuiX includes *)
GuiSandRevision == "comp_sand"

(* no pair of grids under test *)
GlassIdle ==
  /\ grid_up_ = {} /\ grid_down_ = {} /\ gravity_deg_ = 0
  /\ g_pc = "idle" /\ g_i = 0 /\ g_moves = << >>
  /\ glass_op = "none" /\ ms_angle = 0 /\ ms_ret = FALSE

(* no calibration thread under test *)
CaliIdle ==
  /\ cali_pc = "idle" /\ steady_c = 0 /\ start_time = 0 /\ cali_counter = 0
  /\ gyro_offset = Vec(0, 0, 0) /\ cali_done = FALSE
  /\ reads_c = 0 /\ polls = 0 /\ completions = 0 /\ saves = 0
  /\ moved_at = 0 - 1 /\ averaged_over = 0 - 1

IdleButFloat == CycleIdle /\ EulrIdle /\ InferIdle /\ CtlIdle /\ MpuIdle /\
                SandIdle /\ GlassIdle /\ CaliIdle
IdleButCycle == FloatIdle /\ EulrIdle /\ InferIdle /\ CtlIdle /\ MpuIdle /\
                SandIdle /\ GlassIdle /\ CaliIdle
IdleButEulr == FloatIdle /\ CycleIdle /\ InferIdle /\ CtlIdle /\ MpuIdle /\
               SandIdle /\ GlassIdle /\ CaliIdle
IdleButInfer == FloatIdle /\ CycleIdle /\ EulrIdle /\ CtlIdle /\ MpuIdle /\
                SandIdle /\ GlassIdle /\ CaliIdle
IdleButCtl == FloatIdle /\ CycleIdle /\ EulrIdle /\ InferIdle /\ MpuIdle /\
              SandIdle /\ GlassIdle /\ CaliIdle
IdleButMpu == FloatIdle /\ CycleIdle /\ EulrIdle /\ InferIdle /\ CtlIdle /\
              SandIdle /\ GlassIdle /\ CaliIdle
IdleButSand == FloatIdle /\ CycleIdle /\ EulrIdle /\ InferIdle /\
               CtlIdle /\ MpuIdle /\ GlassIdle /\ CaliIdle
IdleButGlass == FloatIdle /\ CycleIdle /\ EulrIdle /\ InferIdle /\
                CtlIdle /\ MpuIdle /\ SandIdle /\ CaliIdle
IdleButCali == FloatIdle /\ CycleIdle /\ EulrIdle /\ InferIdle /\
               CtlIdle /\ MpuIdle /\ SandIdle /\ GlassIdle
LibIdle == FloatIdle /\ CycleIdle /\ EulrIdle /\ InferIdle /\ CtlIdle /\
           MpuIdle /\ SandIdle /\ GlassIdle /\ CaliIdle

(* ------------------------------ Init ----------------------------------- *)
(* AHRS::AHRS(): ready_(0), quat_ = {-1,0,0,0},                            *)
(* start_ = now_ = last_wakeup_ = system_clock::now(), thread_ started.    *)
InitAhrs ==
  /\ variant \in Variants
  /\ clock \in Epochs
  /\ ticks = 0
  /\ m_pc = "ReadData" /\ m_cpy = 0
  /\ m_accel = Vector3Init /\ m_gyro = Vector3Init /\ reads = 0
  /\ accel_ = Vector3Init /\ gyro_ = Vector3Init
  /\ quat_ = [upd |-> 0]
  /\ eulr_ = [upd |-> 0]
  /\ filtered_accel_ = [upd |-> 0]
  /\ quat_without_z_ = [upd |-> 0]
  /\ eulr_without_yaw_ = [upd |-> 0]
  /\ now_ = clock /\ last_wakeup_ = clock /\ start_ = clock
  /\ dt_ = 0
  /\ ready_ = ReadyInit
  /\ f_pc = 1 /\ t_pc = 0 /\ tests = 0
  /\ loc = [t \in Threads |-> LocInit]
  /\ published = <<>>
  /\ updates = 0 /\ cycleUpd = 0
  /\ signals = 0 /\ sinceAcquire = 0 /\ bursts = 0 /\ cycles = 0
  /\ gyroSince = FALSE /\ slowUsed = FALSE
  /\ writers = [f \in {"accel_", "gyro_", "quat_", "now_", "last_wakeup_",
                       "start_", "dt_"} |-> {}]

(* ------------------------------ the clock ------------------------------ *)
(* system_clock::now(): the clock has advanced by d since it was last read *)
SystemClockNow(d) ==
  /\ d > 0 => ticks < MaxTicks
  /\ clock' = clock + d
  /\ ticks' = IF d > 0 THEN ticks + 1 ELSE ticks

(* --------------------- the sensor task (Mpu9250) ----------------------- *)
(* a sensor task that publishes the gyro sample only *)
ReadDataGyroOnly ==
  /\ m_pc = "ReadData"
  /\ reads < MaxReads
  /\ reads' = reads + 1
  /\ \E v \in AccelValues : m_accel' = Vector3(reads + 1, v)
  /\ m_gyro' = Vector3(reads + 1, 0)
  /\ m_pc' = IF variant = "part_008" THEN "OnData" ELSE "PublishGyro"
  /\ UNCHANGED <<variant, libVars, clock, ticks, m_cpy, accel_, gyro_, quat_,
                 outputVars, timeVars, ready_, f_pc, t_pc, tests, loc,
                 published, updHist, gateHist, writers>>

(* Mpu9250::ReadData: one SPI burst fills accel_ and gyro_ of the driver *)
ReadData ==
  /\ m_pc = "ReadData"
  /\ reads < MaxReads
  /\ reads' = reads + 1
  /\ \E v \in AccelValues : m_accel' = Vector3(reads + 1, v)
  /\ m_gyro' = Vector3(reads + 1, 0)
  /\ m_pc' = IF variant = "part_008" THEN "OnData" ELSE "PublishAccel"
  /\ UNCHANGED <<variant, libVars, clock, ticks, m_cpy, accel_, gyro_, quat_,
                 outputVars, timeVars, ready_, f_pc, t_pc, tests, loc,
                 published, updHist, gateHist, writers>>

(* memcpy / struct assignment of a Vector3, one float per step *)
CopyAxis(dst, src, i) == [dst EXCEPT ![Axes[i]] = src[Axes[i]]]

(* the bookkeeping of one ready_.release() *)
Release ==
  /\ \E r \in ReleaseOutcomes(ready_) : ready_' = r
  /\ signals' = signals + 1
  /\ bursts' = IF sinceAcquire = 0 THEN bursts + 1 ELSE bursts
  /\ sinceAcquire' = sinceAcquire + 1
  /\ gyroSince' = TRUE
  /\ UNCHANGED cycles

(* an accl_ready_cb that raises the readiness signal as gyro_ready_cb does *)
AcclReadyCbSignals ==
  /\ variant \in {"part_002", "part_003"}
  /\ m_pc = "PublishAccel"
  /\ accel_' = CopyAxis(accel_, m_accel, m_cpy + 1)
  /\ Wrote("sensor", {"accel_"})
  /\ IF m_cpy = 2
       THEN m_cpy' = 0 /\ m_pc' = "PublishGyro" /\ Release
       ELSE m_cpy' = m_cpy + 1 /\ m_pc' = m_pc
            /\ UNCHANGED <<ready_, gateHist>>
  /\ UNCHANGED <<variant, libVars, clock, ticks, m_accel, m_gyro, reads, gyro_,
                 quat_, outputVars, timeVars, f_pc, t_pc, tests,
                 loc, published, updHist>>

(* accel_topic_.Publish(accel_) running the filter's accl_ready_cb *)
AcclReadyCb ==
  /\ variant \in {"part_002", "part_003"}
  /\ m_pc = "PublishAccel"
  /\ accel_' = CopyAxis(accel_, m_accel, m_cpy + 1)
  /\ Wrote("sensor", {"accel_"})
  /\ IF m_cpy = 2
       THEN m_cpy' = 0 /\ m_pc' = "PublishGyro"
       ELSE m_cpy' = m_cpy + 1 /\ m_pc' = m_pc
  /\ UNCHANGED <<variant, libVars, clock, ticks, m_accel, m_gyro, reads, gyro_,
                 quat_, outputVars, timeVars, ready_, f_pc, t_pc, tests,
                 loc, published, updHist, gateHist>>

(* gyro_topic_.Publish(gyro_) running the filter's gyro_ready_cb *)
GyroReadyCb ==
  /\ variant \in {"part_002", "part_003"}
  /\ m_pc = "PublishGyro"
  /\ gyro_' = CopyAxis(gyro_, m_gyro, m_cpy + 1)
  /\ Wrote("sensor", {"gyro_"})
  /\ IF m_cpy = 2
       THEN m_cpy' = 0 /\ m_pc' = "sleep" /\ Release
       ELSE m_cpy' = m_cpy + 1 /\ m_pc' = m_pc
            /\ UNCHANGED <<ready_, gateHist>>
  /\ UNCHANGED <<variant, libVars, clock, ticks, m_accel, m_gyro, reads, accel_,
                 quat_, outputVars, timeVars, f_pc, t_pc, tests, loc,
                 published, updHist>>

(* the two Publish calls in the revision whose filter subscribes to nothing *)
PublishUnsubscribed ==
  /\ variant = "comp_ahrs"
  /\ m_pc \in {"PublishAccel", "PublishGyro"}
  /\ m_pc' = IF m_pc = "PublishAccel" THEN "PublishGyro" ELSE "sleep"
  /\ UNCHANGED <<variant, libVars, clock, ticks, m_cpy, m_accel, m_gyro, reads,
                 accel_, gyro_, quat_, outputVars, timeVars, ready_, f_pc,
                 t_pc, tests, loc, published, updHist, gateHist,
                 writers>>

(* AHRS::OnData(accel, gyro), called by the sensor task after each read *)
OnData ==
  /\ variant = "part_008"
  /\ m_pc = "OnData"
  /\ IF m_cpy < 3
       THEN /\ accel_' = CopyAxis(accel_, m_accel, m_cpy + 1)
            /\ Wrote("sensor", {"accel_"})
            /\ UNCHANGED gyro_
       ELSE /\ gyro_' = CopyAxis(gyro_, m_gyro, m_cpy - 2)
            /\ Wrote("sensor", {"gyro_"})
            /\ UNCHANGED accel_
  /\ IF m_cpy = 5
       THEN m_cpy' = 0 /\ m_pc' = "sleep" /\ Release
       ELSE m_cpy' = m_cpy + 1 /\ m_pc' = m_pc
            /\ UNCHANGED <<ready_, gateHist>>
  /\ UNCHANGED <<variant, libVars, clock, ticks, m_accel, m_gyro, reads, quat_,
                 outputVars, timeVars, f_pc, t_pc, tests, loc, published,
                 updHist>>

(* std::this_thread::sleep_until(next_time) *)
Sleep ==
  /\ m_pc = "sleep"
  /\ m_pc' = "ReadData"
  /\ UNCHANGED <<variant, libVars, clock, ticks, m_cpy, m_accel, m_gyro, reads,
                 accel_, gyro_, quat_, outputVars, timeVars, ready_, f_pc,
                 t_pc, tests, loc, published, updHist, gateHist,
                 writers>>

(* ------------------- the filter task and RunUnitTest ------------------- *)
(* ready_.acquire() returning in AHRS::ThreadTask: one cycle starts *)
Acquire ==
  /\ At("filter", "acquire")
  /\ ready_ > 0
  /\ ready_' = ready_ - 1
  /\ cycles' = cycles + 1
  /\ sinceAcquire' = 0
  /\ gyroSince' = FALSE
  /\ published' = <<>>
  /\ loc' = [loc EXCEPT !["filter"] = LocInit]
  /\ Advance("filter")
  /\ UNCHANGED <<variant, libVars, clock, ticks, sensorVars, accel_, gyro_, quat_,
                 outputVars, timeVars, tests, updHist, signals, bursts,
                 writers>>

(* AHRS::Update, first part: the timestamp, dt_ and the loads of accel_ *)
UpdateBegin(t) ==
  /\ At(t, "Update")
  /\ loc[t].step = 0
  /\ \E d \in TickSteps : SystemClockNow(d)
  /\ now_' = clock'
  /\ dt_' = DtOf(variant, clock', last_wakeup_)
  /\ last_wakeup_' = clock'
  /\ loc' = [loc EXCEPT ![t].a = accel_, ![t].step = 1]
  /\ Wrote(t, {"now_", "dt_", "last_wakeup_"})
  /\ UNCHANGED <<variant, libVars, sensorVars, accel_, gyro_, quat_,
                 outputVars, start_, ready_, f_pc, t_pc, tests, published,
                 updHist, gateHist>>

(* AHRS::Update, second part: the loads of gyro_, the gain, the new quat_ *)
UpdateEnd(t) ==
  /\ At(t, "Update")
  /\ loc[t].step = 1
  /\ updates' = updates + 1
  /\ quat_' = [upd |-> updates + 1]
  /\ cycleUpd' = IF t = "filter" THEN updates + 1 ELSE cycleUpd
  /\ slowUsed' = (slowUsed \/ (~IsZeroVector(loc[t].a) /\
                     BetaImu(variant, now_, start_) # BETA_FAST))
  /\ loc' = [loc EXCEPT ![t].g = gyro_, ![t].step = 2,
                        ![t].beta_imu = IF IsZeroVector(loc[t].a)
                                          THEN NO_BETA
                                          ELSE BetaImu(variant, now_, start_)]
  /\ Wrote(t, {"quat_"})
  /\ Advance(t)
  /\ UNCHANGED <<variant, libVars, clock, ticks, sensorVars, accel_, gyro_,
                 outputVars, timeVars, ready_, tests, published, gateHist>>

(* AHRS::GetEulr; its body is empty in comp_ahrs.hpp *)
GetEulr(t) ==
  /\ At(t, "GetEulr")
  /\ eulr_' = IF variant = "comp_ahrs" THEN eulr_ ELSE [upd |-> quat_.upd]
  /\ Leave(t)
  /\ Advance(t)
  /\ UNCHANGED <<variant, libVars, clock, ticks, sensorVars, accel_, gyro_, quat_,
                 filtered_accel_, quat_without_z_, eulr_without_yaw_,
                 timeVars, ready_, tests, published, updHist,
                 gateHist, writers>>

(* AHRS::AccelRemoveGravity: reads quat_ and accel_ again *)
AccelRemoveGravity ==
  /\ At("filter", "AccelRemoveGravity")
  /\ filtered_accel_' = [upd |-> quat_.upd]
  /\ loc' = [loc EXCEPT !["filter"].a2 = accel_, !["filter"].step = 3]
  /\ Advance("filter")
  /\ UNCHANGED <<variant, libVars, clock, ticks, sensorVars, accel_, gyro_, quat_,
                 eulr_, quat_without_z_, eulr_without_yaw_, timeVars,
                 ready_, tests, published, updHist, gateHist, writers>>

(* AHRS::RemoveYaw: yaw-free Euler angles from eulr_, quaternion from them *)
RemoveYaw ==
  /\ At("filter", "RemoveYaw")
  /\ eulr_without_yaw_' = [upd |-> eulr_.upd]
  /\ quat_without_z_' = [upd |-> eulr_.upd]
  /\ Advance("filter")
  /\ UNCHANGED <<variant, libVars, clock, ticks, sensorVars, accel_, gyro_, quat_,
                 eulr_, filtered_accel_, timeVars, ready_, tests, loc,
                 published, updHist, gateHist, writers>>

(* the member a topic of the filter publishes *)
TopicData(topic) ==
  CASE topic \in {"quat", "ahrs_quat"} -> quat_
    [] topic \in {"eulr", "ahrs_eulr"} -> eulr_
    [] topic = "gravity_free_accel" -> filtered_accel_
    [] topic = "quat_without_z" -> quat_without_z_
    [] topic = "eulr_without_yaw" -> eulr_without_yaw_

(* one xxx_tp_.Publish(member) statement of AHRS::ThreadTask *)
Publish ==
  /\ At("filter", "Publish")
  /\ LET topic == Body("filter")[f_pc].arg
     IN  published' = Append(published,
                             [topic |-> topic, upd |-> TopicData(topic).upd])
  /\ Leave("filter")
  /\ Advance("filter")
  /\ UNCHANGED <<variant, libVars, clock, ticks, sensorVars, accel_, gyro_, quat_,
                 outputVars, timeVars, ready_, tests, updHist,
                 gateHist, writers>>

(* AHRS::RunUnitTest, initialization section, run by the calling thread *)
RunUnitTestInit ==
  /\ variant = "part_008"
  /\ t_pc = 0
  /\ tests < MaxUnitTests
  /\ tests' = tests + 1
  /\ quat_' = [upd |-> 0 - 1]
  /\ accel_' = Vector3(0 - 1, 1)
  /\ gyro_' = Vector3(0 - 1, 0)
  /\ \E d \in TickSteps : SystemClockNow(d)
  /\ start_' = clock' /\ now_' = clock' /\ last_wakeup_' = clock'
  /\ dt_' = DT_FIXED_US
  /\ loc' = [loc EXCEPT !["caller"] = LocInit]
  /\ t_pc' = 2
  /\ Wrote("caller", {"quat_", "accel_", "gyro_", "start_", "now_",
                      "last_wakeup_", "dt_"})
  /\ UNCHANGED <<variant, libVars, sensorVars, outputVars, ready_,
                 f_pc, published, updHist, gateHist>>

(* AHRS::RunUnitTest, output and verification: reads only, then returns *)
RunUnitTestVerify ==
  /\ At("caller", "verify")
  /\ Leave("caller")
  /\ Advance("caller")
  /\ UNCHANGED <<variant, libVars, clock, ticks, sensorVars, accel_, gyro_, quat_,
                 outputVars, timeVars, ready_, tests, published,
                 updHist, gateHist, writers>>

(* the program as main wires it: sensor task and filter task *)
NextAhrs ==
  \/ ReadData
  \/ AcclReadyCb
  \/ GyroReadyCb
  \/ PublishUnsubscribed
  \/ OnData
  \/ Sleep
  \/ Acquire
  \/ \E t \in Threads : UpdateBegin(t)
  \/ \E t \in Threads : UpdateEnd(t)
  \/ \E t \in Threads : GetEulr(t)
  \/ AccelRemoveGravity
  \/ RemoveYaw
  \/ Publish

(* the program as main wires it; the other views are not running *)
InitProgram == InitAhrs /\ LibIdle

SpecAhrs == InitProgram /\ [][NextAhrs]_vars

(* the revision that has RunUnitTest, with a thread that calls it *)
InitUnitTest == InitAhrs /\ variant = "part_008"

NextUnitTest ==
  \/ ReadData
  \/ OnData
  \/ Sleep
  \/ Acquire
  \/ \E t \in Threads : UpdateBegin(t)
  \/ \E t \in Threads : UpdateEnd(t)
  \/ \E t \in Threads : GetEulr(t)
  \/ RunUnitTestInit
  \/ RunUnitTestVerify

InitTestRun == InitUnitTest /\ LibIdle

SpecUnitTest == InitTestRun /\ [][NextUnitTest]_vars

(* ---------------- the filter cycle on float values: steps --------------- *)
(* AHRS::AHRS(): quat_ = {-1, 0, 0, 0}, the vectors value-initialised *)
InitFloat ==
  /\ InitAhrs /\ variant = "part_002"
  /\ quat_f = QuatSeed
  /\ accel_f = Vec(0, 0, 0) /\ gyro_f = Vec(0, 0, 0)
  /\ filtered_accel_f = Vec(0, 0, 0)
  /\ pc_f = "Update" /\ cycles_f = 0 /\ samples_f = 0
  /\ last_f = LastInit
  /\ grav_f = [q |-> QuatSeed, a |-> Vec(0, 0, 0)]
  /\ eulr_f = [pit |-> 0, rol |-> 0, yaw |-> 0] /\ test_f = "none"
  /\ IdleButFloat

(* the two callbacks of one sensor read: accel_ and gyro_ are overwritten *)
SampleF ==
  /\ samples_f < MaxSamplesF
  /\ samples_f' = samples_f + 1
  /\ accel_f' \in AccelSamples
  /\ gyro_f' \in GyroSamples
  /\ UNCHANGED <<ahrsVars, notFloat, quat_f, filtered_accel_f, pc_f, cycles_f, last_f,
                 grav_f, eulr_f, test_f>>

(* AHRS::Update on the floats: dt_ from the clock, the gain from the age *)
UpdateF ==
  /\ pc_f = "Update"
  /\ cycles_f < MaxCyclesF
  /\ cycles_f' = cycles_f + 1
  /\ \E dt \in DtSamples, b \in {BETA_FAST, BETA_SLOW} :
       /\ quat_f' = UpdateQuat(quat_f, accel_f, gyro_f, dt, BetaFloat(b))
       /\ last_f' = [q |-> quat_f, a |-> accel_f, g |-> gyro_f, dt |-> dt,
                     beta |-> BetaFloat(b),
                     after_skip |-> (cycles_f > 0 /\ ~AccelValid(last_f.a))]
  /\ pc_f' = "AccelRemoveGravity"
  /\ UNCHANGED <<ahrsVars, notFloat, accel_f, gyro_f, filtered_accel_f, samples_f,
                 grav_f, eulr_f, test_f>>

(* AHRS::AccelRemoveGravity on the floats: quat_ and accel_ as they are now *)
AccelRemoveGravityF ==
  /\ pc_f = "AccelRemoveGravity"
  /\ filtered_accel_f' = RemoveGravity(quat_f, accel_f)
  /\ grav_f' = [q |-> quat_f, a |-> accel_f]
  /\ pc_f' = "Update"
  /\ UNCHANGED <<ahrsVars, notFloat, quat_f, accel_f, gyro_f, cycles_f, samples_f,
                 last_f, eulr_f, test_f>>

NextFloat ==
  \/ SampleF
  \/ UpdateF
  \/ AccelRemoveGravityF

SpecFloat == InitFloat /\ [][NextFloat]_vars

(* -------- the filter at rest: the revision with OnData, RunUnitTest ----- *)
(* AHRS::AHRS() of that revision; the filter task waits at ready_.acquire() *)
InitRest ==
  /\ InitAhrs /\ variant = "part_008"
  /\ quat_f = QuatSeed
  /\ accel_f = Vec(0, 0, 0) /\ gyro_f = Vec(0, 0, 0)
  /\ filtered_accel_f = Vec(0, 0, 0)
  /\ pc_f = "acquire" /\ cycles_f = 0 /\ samples_f = 0
  /\ last_f = LastInit
  /\ grav_f = [q |-> QuatSeed, a |-> Vec(0, 0, 0)]
  /\ eulr_f = [pit |-> 0, rol |-> 0, yaw |-> 0] /\ test_f = "none"
  /\ IdleButFloat

(* AHRS::OnData with the device at rest: one constant still vector, no     *)
(* rotation; the release wakes the waiting filter task                     *)
OnDataF ==
  /\ pc_f = "acquire" /\ test_f = "none"
  /\ samples_f < MaxSamplesF
  /\ samples_f' = samples_f + 1
  /\ accel_f' \in RestAccels
  /\ samples_f = 0 \/ accel_f' = accel_f
  /\ gyro_f' = Vec(0, 0, 0)
  /\ pc_f' = "Update"
  /\ UNCHANGED <<ahrsVars, notFloat, quat_f, filtered_accel_f, cycles_f, last_f,
                 grav_f, eulr_f, test_f>>

(* AHRS::Update of that revision: dt_ = 0.001f, the gain 10 or 2 by age *)
UpdateRest ==
  /\ pc_f = "Update"
  /\ cycles_f' = cycles_f + 1
  /\ \E b \in {BETA_FAST, BETA_SLOW_ONDATA} :
       /\ quat_f' = UpdateQuat(quat_f, accel_f, gyro_f, DT_FIXED, BetaFloat(b))
       /\ last_f' = [q |-> quat_f, a |-> accel_f, g |-> gyro_f,
                     dt |-> DT_FIXED, beta |-> BetaFloat(b),
                     after_skip |-> FALSE]
  /\ pc_f' = "GetEulr"
  /\ UNCHANGED <<ahrsVars, notFloat, accel_f, gyro_f, filtered_accel_f, samples_f,
                 grav_f, eulr_f, test_f>>

(* AHRS::GetEulr, then back to ready_.acquire() *)
GetEulrF ==
  /\ pc_f = "GetEulr"
  /\ eulr_f' = GetEulrOf(quat_f)
  /\ pc_f' = "acquire"
  /\ UNCHANGED <<ahrsVars, notFloat, quat_f, accel_f, gyro_f, filtered_accel_f,
                 cycles_f, samples_f, last_f, grav_f, test_f>>

(* AHRS::RunUnitTest, called while the filter task waits: initialization,  *)
(* one Update (start_ = now_, so the gain is 10), GetEulr, verification    *)
RunUnitTestF ==
  /\ pc_f = "acquire" /\ test_f = "none"
  /\ accel_f' = AccelUnitTest
  /\ gyro_f' = Vec(0, 0, 0)
  /\ quat_f' = UpdateQuat(QuatIdentity, AccelUnitTest, Vec(0, 0, 0), DT_FIXED,
                          BetaFloat(BETA_FAST))
  /\ last_f' = [q |-> QuatIdentity, a |-> AccelUnitTest, g |-> Vec(0, 0, 0),
                dt |-> DT_FIXED, beta |-> BetaFloat(BETA_FAST),
                after_skip |-> FALSE]
  /\ cycles_f' = cycles_f + 1
  /\ eulr_f' = GetEulrOf(quat_f')
  /\ test_f' = Verdict(eulr_f')
  /\ UNCHANGED <<ahrsVars, notFloat, filtered_accel_f, pc_f, samples_f, grav_f>>

NextRest ==
  \/ OnDataF
  \/ UpdateRest
  \/ GetEulrF
  \/ RunUnitTestF

SpecRest == InitRest /\ [][NextRest]_vars

(* ----------------------- Type::CycleValue: steps ------------------------ *)
(* CycleValue(): value_(0.0f) *)
InitCycle ==
  /\ InitAhrs /\ variant = "comp_ahrs"
  /\ IdleButCycle
  /\ cv = 0 /\ cv_op = "default" /\ cv_arg = 0 /\ cv_ans = 0

(* CycleValue(const float&) and CycleValue(const double&) *)
ConstructFloat ==
  /\ \E value \in FloatArgs : cv' = Calculate(value)
  /\ cv_op' = "construct" /\ cv_arg' = 0 /\ cv_ans' = 0
  /\ UNCHANGED <<ahrsVars, notCycle>>

(* operator=(const float&) and operator=(const double&) *)
AssignFloat ==
  /\ \E value \in FloatArgs : cv' = Calculate(value)
  /\ cv_op' = "assign" /\ cv_arg' = 0 /\ cv_ans' = 0
  /\ UNCHANGED <<ahrsVars, notCycle>>

(* CycleValue(const CycleValue&) and the defaulted copy assignment *)
CopyCycle ==
  /\ cv' = CopyConstruct(cv)
  /\ cv_op' = "copy" /\ cv_arg' = 0 /\ cv_ans' = 0
  /\ UNCHANGED <<ahrsVars, notCycle>>

(* operator+ and operator+= with a float, a double or a CycleValue *)
Plus ==
  /\ \E value \in FloatArgs : cv' = PlusFloat(cv, value)
  /\ cv_op' = "plus" /\ cv_arg' = 0 /\ cv_ans' = 0
  /\ UNCHANGED <<ahrsVars, notCycle>>

(* operator-() *)
UnaryMinus ==
  /\ cv' = Negate(cv)
  /\ cv_op' = "negate" /\ cv_arg' = 0 /\ cv_ans' = 0
  /\ UNCHANGED <<ahrsVars, notCycle>>

(* operator-(const float&): the argument is wrapped by Calculate first *)
Minus ==
  /\ \E raw_value \in FloatArgs :
       /\ cv_arg' = Calculate(raw_value)
       /\ cv_ans' = MinusFloat(cv, raw_value)
  /\ cv_op' = "minus"
  /\ UNCHANGED <<ahrsVars, notCycle, cv>>

NextCycle ==
  \/ ConstructFloat
  \/ AssignFloat
  \/ CopyCycle
  \/ Plus
  \/ UnaryMinus
  \/ Minus

SpecCycle == InitCycle /\ [][NextCycle]_vars

(* --------------------- Euler angles: GetEulr, RemoveYaw ----------------- *)
(* Type::Eulr eulr_{}, eulr_without_yaw_{} *)
InitEulr ==
  /\ InitAhrs /\ variant = "part_002"
  /\ IdleButEulr
  /\ eulr_v = Eulr(0, 0, 0) /\ eulr_without_yaw_v = Eulr(0, 0, 0)
  /\ pc_e = "GetEulr"

(* AHRS::GetEulr: each member is assigned a float by operator=(float) *)
GetEulrE ==
  /\ pc_e = "GetEulr"
  /\ \E pitch \in EulerArgs, roll \in EulerArgs, yaw \in EulerArgs :
       eulr_v' = Eulr(Calculate(pitch), Calculate(roll), Calculate(yaw))
  /\ pc_e' = "RemoveYaw"
  /\ UNCHANGED <<ahrsVars, notEulr, eulr_without_yaw_v>>

(* AHRS::RemoveYaw (quat_without_z_, which it derives from the result, is *)
(* not part of this view)                                                  *)
RemoveYawE ==
  /\ pc_e = "RemoveYaw"
  /\ eulr_without_yaw_v' = RemoveYawOf(eulr_v)
  /\ pc_e' = "GetEulr"
  /\ UNCHANGED <<ahrsVars, notEulr, eulr_v>>

NextEulr ==
  \/ GetEulrE
  \/ RemoveYawE

SpecEulr == InitEulr /\ [][NextEulr]_vars

(* ------------------- InferenceEngine: callbacks and task ---------------- *)
(* InferenceEngine::InferenceEngine: ready_(0), the window size from the   *)
(* model, the buffer empty, the members value-initialised                  *)
InitInfer ==
  /\ InitAhrs /\ variant = "part_002"
  /\ IdleButInfer
  /\ i_rev \in Revisions
  /\ input_tensor_size_ \in TensorSizes
  /\ new_data_number_ \in NewDataNumbers
  /\ i_eulr = NoMsg /\ i_gyro = NoMsg /\ i_accel = NoMsg
  /\ i_ready = 0 /\ sensor_buffer_ = << >> /\ i_pc = "acquire"
  /\ update_counter = 0 /\ pubs = 0 /\ collected = << >>
  /\ windows = << >> /\ wakeups = 0 /\ run_at = << >>
  /\ VoteInit

(* Topic::Publish on one of the program's topics: the callbacks registered *)
(* on it run in the publisher's thread.  acc_ready_cb_fun and              *)
(* gyro_ready_cb_fun memcpy the message into their member;                 *)
(* eulr_ready_cb_fun does too and calls ready_.release()                   *)
TopicPublish(topic) ==
  /\ pubs < MaxPubs
  /\ pubs' = pubs + 1
  /\ i_accel' = IF topic = AccelTopic(i_rev) THEN Msg(topic, pubs') ELSE i_accel
  /\ i_gyro' = IF topic = GyroTopic(i_rev) THEN Msg(topic, pubs') ELSE i_gyro
  /\ i_eulr' = IF topic = EulrTopic(i_rev) THEN Msg(topic, pubs') ELSE i_eulr
  /\ IF topic = EulrTopic(i_rev)
       THEN \E r \in ReleaseOutcomes(i_ready) : i_ready' = r
       ELSE i_ready' = i_ready
  /\ UNCHANGED <<ahrsVars, notInfer, i_rev, input_tensor_size_,
                 new_data_number_, sensor_buffer_, i_pc, update_counter,
                 collected, windows, wakeups, run_at, voteVars,
                 announceVars>>

(* InferenceEngine::RunInference on the window, the model answering with  *)
(* answer: threshold, history, vote                                       *)
RunInference(answer) ==
  /\ last_answer' = answer
  /\ prediction_history_' =
       PushHistory(prediction_history_,
                   PredClass(answer, confidence_threshold_), history_size_)
  /\ result' = RunInferenceResult(prediction_history_', min_consensus_votes_)
  /\ inferences' = inferences + 1
  /\ UNCHANGED <<history_size_, min_consensus_votes_, confidence_threshold_>>

(* InferenceTask: the prediction printed and remembered, or neither *)
Announce ==
  IF Announces(result', last_result)
    THEN announced' = Append(announced, result') /\ last_result' = result'
    ELSE UNCHANGED announceVars

(* InferenceTask: ready_.acquire() *)
InferenceAcquire ==
  /\ i_pc = "acquire"
  /\ i_ready > 0
  /\ i_ready' = i_ready - 1
  /\ i_pc' = "collect"
  /\ UNCHANGED <<ahrsVars, notInfer, i_rev, input_tensor_size_,
                 new_data_number_, i_eulr, i_gyro, i_accel, sensor_buffer_,
                 update_counter, pubs, collected, windows, wakeups, run_at,
                 voteVars, announceVars>>

(* InferenceTask: CollectSensorData(), the update counter, RunInference *)
InferenceCollect ==
  /\ i_pc = "collect"
  /\ collected' = <<i_eulr, i_gyro, i_accel>>
  /\ sensor_buffer_' =
       CollectSensorData(i_rev, sensor_buffer_, input_tensor_size_,
                         i_eulr, i_gyro, i_accel)
  /\ wakeups' = wakeups + 1
  /\ IF RunsInference(i_rev, update_counter, new_data_number_,
                      sensor_buffer_', input_tensor_size_)
       THEN /\ windows' =
                 Append(windows,
                        Len(Window(i_rev, sensor_buffer_', input_tensor_size_)))
            /\ run_at' = Append(run_at, wakeups')
            /\ IF i_rev = "first"
                 THEN \E answer \in TaskAnswers :
                        RunInference(answer) /\ Announce
                 ELSE UNCHANGED <<voteVars, announceVars>>
       ELSE UNCHANGED <<windows, run_at, voteVars, announceVars>>
  /\ update_counter' = NextCounter(i_rev, update_counter, new_data_number_)
  /\ i_pc' = "acquire"
  /\ UNCHANGED <<ahrsVars, notInfer, i_rev, input_tensor_size_,
                 new_data_number_, i_eulr, i_gyro, i_accel, i_ready, pubs>>

NextInfer ==
  \/ \E topic \in TopicNames : TopicPublish(topic)
  \/ InferenceAcquire
  \/ InferenceCollect

SpecInfer == InitInfer /\ [][NextInfer]_vars

(* ------------- InferenceEngine::RunInference, call after call ----------- *)
(* an engine of the first revision constructed with a history size and a  *)
(* number of votes of the caller's choice                                  *)
InitVote ==
  /\ InitAhrs /\ variant = "part_002"
  /\ IdleButInfer
  /\ i_rev = "first" /\ input_tensor_size_ = 0 /\ new_data_number_ = 0
  /\ i_eulr = NoMsg /\ i_gyro = NoMsg /\ i_accel = NoMsg
  /\ i_ready = 0 /\ sensor_buffer_ = << >> /\ i_pc = "idle"
  /\ update_counter = 0 /\ pubs = 0 /\ collected = << >>
  /\ windows = << >> /\ wakeups = 0 /\ run_at = << >>
  /\ prediction_history_ = << >>
  /\ history_size_ \in 1..MaxHistory
  /\ min_consensus_votes_ \in 1..MaxVotes
  /\ confidence_threshold_ = CONFIDENCE_THRESHOLD
  /\ last_answer = NoAnswer /\ result = "" /\ inferences = 0
  /\ last_result = "" /\ announced = << >>

(* one call of RunInference *)
RunInferenceCall ==
  /\ inferences < MaxInferences
  /\ \E answer \in ModelAnswers : RunInference(answer)
  /\ UNCHANGED <<ahrsVars, notInfer, i_rev, input_tensor_size_,
                 new_data_number_, i_eulr, i_gyro, i_accel, i_ready,
                 sensor_buffer_, i_pc, update_counter, pubs, collected,
                 windows, wakeups, run_at, announceVars>>

NextVote == RunInferenceCall

SpecVote == InitVote /\ [][NextVote]_vars

(* ----------- InferenceTask: RunInference and the announcement ----------- *)
(* the task of an engine constructed with a history size and a number of  *)
(* votes of the caller's choice, its window full                          *)
InitAnnounce ==
  /\ InitAhrs /\ variant = "part_002"
  /\ IdleButInfer
  /\ i_rev = "first" /\ input_tensor_size_ = 0 /\ new_data_number_ = 0
  /\ i_eulr = NoMsg /\ i_gyro = NoMsg /\ i_accel = NoMsg
  /\ i_ready = 0 /\ sensor_buffer_ = << >> /\ i_pc = "idle"
  /\ update_counter = 0 /\ pubs = 0 /\ collected = << >>
  /\ windows = << >> /\ wakeups = 0 /\ run_at = << >>
  /\ prediction_history_ = << >>
  /\ history_size_ \in 1..MaxHistory
  /\ min_consensus_votes_ \in 1..MaxVotes
  /\ confidence_threshold_ = CONFIDENCE_THRESHOLD
  /\ last_answer = NoAnswer /\ result = "" /\ inferences = 0
  /\ last_result = "" /\ announced = << >>

(* InferenceTask: a wake-up that runs the model, and what it prints *)
InferenceAnnounce ==
  /\ inferences < MaxInferences
  /\ \E answer \in ModelAnswers : RunInference(answer) /\ Announce
  /\ UNCHANGED <<ahrsVars, notInfer, i_rev, input_tensor_size_,
                 new_data_number_, i_eulr, i_gyro, i_accel, i_ready,
                 sensor_buffer_, i_pc, update_counter, pubs, collected,
                 windows, wakeups, run_at>>

NextAnnounce == InferenceAnnounce

SpecAnnounce == InitAnnounce /\ [][NextAnnounce]_vars

(* ------------------- FluxSand: the main loop and handlers --------------- *)
(* FluxSand::FluxSand: ModeManager starts in TIME; part_014 has             *)
(* Mode mode_ = Mode::TIMER.  The locals of Run are cleared between turns.  *)
InitCtl ==
  /\ InitAhrs /\ variant = "part_002"
  /\ IdleButCtl
  /\ c_rev \in CtlRevisions
  /\ mode_ = IF c_rev = "controller" THEN TIME ELSE TIMER
  /\ landscape_ = FALSE
  /\ stopwatch_running_ = FALSE /\ stopwatch_start_time_ = 0
  /\ stopwatch_elapsed_sec_ = 0 /\ timer_active_ = FALSE
  /\ timer_start_time_ = 0 /\ timer_duration_sec_ = 0
  /\ max_duration_sec_ = 0 /\ sand_enable_ = FALSE /\ reset_ = FALSE
  /\ steady = 0 /\ run_pc = "begin" /\ l_mode = TIME
  /\ l_landscape = FALSE /\ l_remaining = 0
  /\ advances = 0 /\ presses = 0 /\ gestures = 0
  /\ expiries = 0 /\ notes = 0 /\ run_disables = 0

(* std::chrono::steady_clock between two readings *)
AdvanceClock ==
  /\ advances < MaxAdvances
  /\ advances' = advances + 1
  /\ \E d \in AdvanceSeconds : steady' = steady + d
  /\ UNCHANGED <<ahrsVars, notCtl, c_rev, modeVars, sand_enable_, reset_,
                 runVars, presses, gestures, expiries, notes, run_disables>>

(* the interrupt callback of button 1 or of button 2 *)
ButtonPress ==
  /\ presses < MaxPresses
  /\ presses' = presses + 1
  /\ \/ SetMembers(Button1(c_rev, Members))
     \/ SetMembers(Button2(c_rev, Members, steady))
  /\ UNCHANGED <<ahrsVars, notCtl, c_rev, steady, runVars, advances,
                 gestures, expiries, notes, run_disables>>

(* the gesture callback, run by the classifier's thread *)
GestureCallback ==
  /\ gestures < MaxGestures
  /\ gestures' = gestures + 1
  /\ \E g \in Gestures : SetMembers(Gesture(c_rev, Members, g, steady))
  /\ UNCHANGED <<ahrsVars, notCtl, c_rev, steady, runVars, advances,
                 presses, expiries, notes, run_disables>>

(* Run: mode_manager_.GetMode() and IsLandscape(); part_014: switch (mode_) *)
RunGetMode ==
  /\ run_pc = "begin"
  /\ l_mode' = mode_
  /\ l_landscape' = IF c_rev = "controller" THEN landscape_ ELSE l_landscape
  /\ run_pc' = IF mode_ = TIMER THEN "remaining" ELSE "render"
  /\ UNCHANGED <<ahrsVars, notCtl, c_rev, modeVars, sand_enable_, reset_,
                 steady, l_remaining, advances, presses, gestures, expiries,
                 notes, run_disables>>

(* Run, case TIMER: remaining = GetRemainingTimerSeconds(), which stops an  *)
(* expired countdown; in part_014 the same lines are part of Run and play   *)
(* the completion note there                                                *)
RunRemaining ==
  /\ run_pc = "remaining"
  /\ l_remaining' = RemainingSeconds(timer_active_, steady, timer_start_time_,
                                     timer_duration_sec_)
  /\ IF TimerExpired(timer_active_, steady, timer_start_time_,
                     timer_duration_sec_)
       THEN /\ timer_active_' = FALSE
            /\ expiries' = expiries + 1
            /\ notes' = IF c_rev = "part_014" THEN notes + 1 ELSE notes
       ELSE UNCHANGED <<timer_active_, expiries, notes>>
  /\ run_pc' = IF c_rev = "controller" THEN "check" ELSE "render"
  /\ UNCHANGED <<ahrsVars, notCtl, c_rev, mode_, landscape_,
                 stopwatch_running_, stopwatch_start_time_,
                 stopwatch_elapsed_sec_, timer_start_time_,
                 timer_duration_sec_, max_duration_sec_, sand_enable_, reset_,
                 steady, l_mode, l_landscape, advances, presses, gestures,
                 run_disables>>

(* Run, case TIMER: if (remaining == 0 && IsTimerRunning()) PlayNote(C, 8,  *)
(* 1000) and SandDisable()                                                  *)
RunCheckFinished ==
  /\ run_pc = "check"
  /\ IF l_remaining = 0 /\ timer_active_
       THEN /\ notes' = notes + 1
            /\ sand_enable_' = FALSE
            /\ run_disables' = run_disables + 1
       ELSE UNCHANGED <<notes, sand_enable_, run_disables>>
  /\ run_pc' = "render"
  /\ UNCHANGED <<ahrsVars, notCtl, c_rev, modeVars, reset_, steady, l_mode,
                 l_landscape, l_remaining, advances, presses, gestures,
                 expiries>>

(* Run, case TIMER: the branch else if (IsTimerRunning()), which enables    *)
(* the sand and divides by GetMaxTimerDuration() for the target count       *)
ComputesTarget ==
  c_rev = "controller" /\ l_mode = TIMER /\ ~l_landscape /\ timer_active_

(* Run: the rendering of the mode; in TIMER mode and portrait with the      *)
(* countdown running the controller enables the sand animation              *)
RunRender ==
  /\ run_pc = "render"
  /\ sand_enable_' = IF ComputesTarget THEN TRUE ELSE sand_enable_
  /\ run_pc' = "sleep"
  /\ UNCHANGED <<ahrsVars, notCtl, c_rev, modeVars, reset_, steady, l_mode,
                 l_landscape, l_remaining, advances, presses, gestures,
                 expiries, notes, run_disables>>

(* Run: sleep_for(5 ms) and return; main calls Run again *)
RunSleep ==
  /\ run_pc = "sleep"
  /\ run_pc' = "begin"
  /\ l_mode' = TIME /\ l_landscape' = FALSE /\ l_remaining' = 0
  /\ UNCHANGED <<ahrsVars, notCtl, c_rev, modeVars, sand_enable_, reset_,
                 steady, advances, presses, gestures, expiries, notes,
                 run_disables>>

NextCtl ==
  \/ AdvanceClock
  \/ ButtonPress
  \/ GestureCallback
  \/ RunGetMode
  \/ RunRemaining
  \/ RunCheckFinished
  \/ RunRender
  \/ RunSleep

SpecCtl == InitCtl /\ [][NextCtl]_vars

(* -------------------- Mpu9250: constructor and main thread -------------- *)
(* the members as their initialisers leave them, before the constructor    *)
(* calls LoadCalibrationData; the file is whatever the disk holds          *)
InitMpu ==
  /\ InitAhrs /\ variant = "comp_ahrs"
  /\ file_d \in Files
  /\ gyro_bias_ = Vec(0, 0, 0)
  /\ gyro_d = Vec(0, 0, 0) /\ gyro_delta_ = Vec(0, 0, 0)
  /\ data_d = Bytes(0, 0, 0, 0, 0, 0) /\ gyro_pub_d = Vec(0, 0, 0)
  /\ pc_d = "LoadCalibrationData" /\ reads_d = 0
  /\ IdleButMpu

(* Mpu9250::LoadCalibrationData, called once by the constructor *)
MpuLoadCalibrationData ==
  /\ pc_d = "LoadCalibrationData"
  /\ gyro_bias_' = LoadCalibrationDataOf(file_d, gyro_bias_)
  /\ pc_d' = "ReadData"
  /\ UNCHANGED <<ahrsVars, notMpu, file_d, gyro_d, gyro_delta_, data_d,
                 gyro_pub_d, reads_d>>

(* Mpu9250::ReadData: the gyro part of the 14 bytes read *)
MpuReadData ==
  /\ pc_d = "ReadData"
  /\ reads_d < MaxReadsD
  /\ reads_d' = reads_d + 1
  /\ \E x, y, z \in BytePairs :
       /\ data_d' = Bytes(x[1], x[2], y[1], y[2], z[1], z[2])
       /\ gyro_d' = Vec(ReadGyroAxis(x[1], x[2], gyro_bias_.x),
                        ReadGyroAxis(y[1], y[2], gyro_bias_.y),
                        ReadGyroAxis(z[1], z[2], gyro_bias_.z))
  /\ gyro_delta_' = Vec(FSub(gyro_d'.x, gyro_d.x), FSub(gyro_d'.y, gyro_d.y),
                        FSub(gyro_d'.z, gyro_d.z))
  /\ pc_d' = "Publish"
  /\ UNCHANGED <<ahrsVars, notMpu, file_d, gyro_bias_, gyro_pub_d>>

(* MainThreadTask after ReadData: accel_topic_.Publish(accel_),            *)
(* gyro_topic_.Publish(gyro_), sleep_until(next_time)                      *)
MpuPublish ==
  /\ pc_d = "Publish"
  /\ gyro_pub_d' = gyro_d
  /\ pc_d' = "ReadData"
  /\ UNCHANGED <<ahrsVars, notMpu, file_d, gyro_bias_, gyro_d, gyro_delta_,
                 data_d, reads_d>>

NextMpu ==
  \/ MpuLoadCalibrationData
  \/ MpuReadData
  \/ MpuPublish

SpecMpu == InitMpu /\ [][NextMpu]_vars

(* -------------------- Mpu9250::CalibrateThreadTask --------------------- *)
(* std::chrono::seconds(5), seconds(30) and seconds(35) *)
WINDOW_FROM_SEC == 5
WINDOW_TO_SEC == 30
FINISH_AFTER_SEC == 35

(* the bounds of one run: device reads and turns of the inner loop *)
MaxReadsC == 2
MaxPolls == 5

(* what the steady clock advances by while the thread sleeps until         *)
(* next_time: less than a second, 5 s, 15 s, or, the thread waking late,  *)
(* more than the whole run of 35 s                                         *)
SleepSeconds == {0, 5, 15, FINISH_AFTER_SEC + 1}

(* byte pairs of a gyro at rest: 0, 4 and 7 counts, which scale to the     *)
(* floats 0, 1/256 and 2/256 rad/s                                         *)
RestBytePairs == {<<0, 0>>, <<0, 4>>, <<0, 7>>}

(* fabsf(x) > n / d, the right side a double: the comparison is exact *)
ExceedsDouble(x, n, d) ==
  ~IsNaN(x) /\ (IsInf(x) \/ Abs(x) * d > n * ONE)

(* fabsf(gyro_delta_.x) > 0.005 || fabsf(gyro_delta_.y) > 0.005 ||         *)
(* fabsf(gyro_delta_.z) > 0.01                                             *)
Moved(delta) ==
  \/ ExceedsDouble(delta.x, 5, 1000) \/ ExceedsDouble(delta.y, 5, 1000)
  \/ ExceedsDouble(delta.z, 1, 100)

(* now - start_time > seconds(5) && now - start_time < seconds(30) *)
InWindow(elapsed) == elapsed > WINDOW_FROM_SEC /\ elapsed < WINDOW_TO_SEC

(* now - start_time > seconds(35) && cali_done == false *)
Finishes(elapsed, done) == elapsed > FINISH_AFTER_SEC /\ ~done

(* static_cast<float>(gyro_offset_x / static_cast<double>(counter)) *)
Average(sum, n) == FDiv(sum, n * ONE)

(* fabsf(bias_x) > 0.005 || fabsf(bias_y) > 0.005 || fabsf(bias_z) > 0.005 *)
NeedsCalibration(bias) ==
  \/ ExceedsDouble(bias.x, 5, 1000) \/ ExceedsDouble(bias.y, 5, 1000)
  \/ ExceedsDouble(bias.z, 5, 1000)

(* the sum of two vectors, component by component *)
VecAdd(a, b) == Vec(FAdd(a.x, b.x), FAdd(a.y, b.y), FAdd(a.z, b.z))

(* the groups of state outside class Mpu9250 *)
notDevice == <<floatVars, cycleVars, eulrVars, inferVars, ctlVars, sandVars,
               glassVars>>
IdleButDevice == FloatIdle /\ CycleIdle /\ EulrIdle /\ InferIdle /\
                 CtlIdle /\ SandIdle /\ GlassIdle

(* Mpu9250::Mpu9250 up to the start of the two threads: gyro_ is           *)
(* value-initialised, gyro_delta_ is not initialised at all, and           *)
(* LoadCalibrationData has read the file                                   *)
InitCali ==
  /\ InitAhrs /\ variant = "comp_ahrs"
  /\ IdleButDevice
  /\ file_d \in {NoFile, File(SIZEOF_VECTOR3, Vec(3, 0, 0))}
  /\ gyro_bias_ = LoadCalibrationDataOf(file_d, Vec(0, 0, 0))
  /\ gyro_d = Vec(0, 0, 0)
  /\ gyro_delta_ \in {Vec(0, 0, 0), Vec(0, 0, 3)}
  /\ data_d = Bytes(0, 0, 0, 0, 0, 0) /\ gyro_pub_d = Vec(0, 0, 0)
  /\ pc_d = "ReadData" /\ reads_d = 0
  /\ cali_pc = "outer" /\ steady_c = 0 /\ start_time = 0
  /\ cali_counter = 0 /\ gyro_offset = Vec(0, 0, 0) /\ cali_done = FALSE
  /\ reads_c = 0 /\ polls = 0 /\ completions = 0 /\ saves = 0
  /\ moved_at = 0 - 1 /\ averaged_over = 0 - 1

(* one turn of MainThreadTask: ReadData (its gyro part) and the publishing *)
(* of gyro_                                                                *)
CaliMainThreadTask ==
  /\ reads_c < MaxReadsC
  /\ reads_c' = reads_c + 1
  /\ \E x, z \in RestBytePairs :
       /\ data_d' = Bytes(x[1], x[2], 0, 0, z[1], z[2])
       /\ gyro_d' = Vec(ReadGyroAxis(x[1], x[2], gyro_bias_.x),
                        ReadGyroAxis(0, 0, gyro_bias_.y),
                        ReadGyroAxis(z[1], z[2], gyro_bias_.z))
  /\ gyro_delta_' = Vec(FSub(gyro_d'.x, gyro_d.x), FSub(gyro_d'.y, gyro_d.y),
                        FSub(gyro_d'.z, gyro_d.z))
  /\ gyro_pub_d' = gyro_d'
  /\ UNCHANGED <<ahrsVars, notDevice, file_d, gyro_bias_, pc_d, reads_d,
                 cali_pc, steady_c, start_time, cali_counter, gyro_offset,
                 cali_done, polls, completions, saves, moved_at,
                 averaged_over>>

(* CalibrateThreadTask, the top of the outer loop: the locals are set up   *)
(* again; once cali_done is set the thread sleeps for UINT32_MAX seconds   *)
CaliRestart ==
  /\ cali_pc = "outer"
  /\ start_time' = steady_c
  /\ cali_counter' = 0 /\ gyro_offset' = Vec(0, 0, 0)
  /\ cali_pc' = IF cali_done THEN "parked" ELSE "inner"
  /\ UNCHANGED <<ahrsVars, notDevice, mpuVars, steady_c, cali_done, reads_c,
                 polls, completions, saves, moved_at, averaged_over>>

(* the bias SaveCalibrationData is called with, and the file afterwards:   *)
(* written, or left alone when it cannot be opened                         *)
CaliSave(bias) ==
  /\ gyro_bias_' = VecAdd(gyro_bias_, bias)
  /\ file_d' \in {File(SIZEOF_VECTOR3, gyro_bias_'), file_d}
  /\ saves' = saves + 1

(* CalibrateThreadTask, one turn of the inner loop up to its sleep_until:  *)
(* the test for movement, the sample added to the sums, the finishing      *)
(* block                                                                   *)
CaliTurn ==
  /\ cali_pc = "inner"
  /\ polls < MaxPolls
  /\ polls' = polls + 1
  /\ IF Moved(gyro_delta_)
       THEN /\ cali_pc' = "break"
            /\ moved_at' = steady_c
            /\ UNCHANGED <<file_d, gyro_bias_, cali_counter, gyro_offset,
                           cali_done, completions, saves, averaged_over>>
       ELSE LET elapsed == steady_c - start_time
                n == IF InWindow(elapsed) THEN cali_counter + 1
                                          ELSE cali_counter
                sum == IF InWindow(elapsed) THEN VecAdd(gyro_offset, gyro_d)
                                            ELSE gyro_offset
                bias == Vec(Average(sum.x, n), Average(sum.y, n),
                            Average(sum.z, n))
            IN  /\ cali_pc' = "sleep"
                /\ cali_counter' = n /\ gyro_offset' = sum
                /\ IF Finishes(elapsed, cali_done)
                     THEN /\ averaged_over' = n
                          /\ completions' = completions + 1
                          /\ cali_done' = TRUE
                          /\ IF NeedsCalibration(bias)
                               THEN CaliSave(bias)
                               ELSE UNCHANGED <<file_d, gyro_bias_, saves>>
                     ELSE UNCHANGED <<file_d, gyro_bias_, cali_done,
                                      completions, saves, averaged_over>>
                /\ UNCHANGED moved_at
  /\ UNCHANGED <<ahrsVars, notDevice, gyro_d, gyro_delta_, data_d,
                 gyro_pub_d, pc_d, reads_d, steady_c, start_time, reads_c>>

(* next_time += period_us; sleep_until(next_time): the thread goes on in   *)
(* the inner loop, or after a movement leaves it for the outer loop        *)
CaliSleep ==
  /\ cali_pc \in {"sleep", "break"}
  /\ \E d \in SleepSeconds : steady_c' = steady_c + d
  /\ cali_pc' = IF cali_pc = "sleep" THEN "inner" ELSE "outer"
  /\ UNCHANGED <<ahrsVars, notDevice, mpuVars, start_time, cali_counter,
                 gyro_offset, cali_done, reads_c, polls, completions, saves,
                 moved_at, averaged_over>>

NextCali ==
  \/ CaliMainThreadTask
  \/ CaliRestart
  \/ CaliTurn
  \/ CaliSleep

SpecCali == InitCali /\ [][NextCali]_vars

(* ------------------------------ class SandGrid ------------------------- *)
(* a SandGrid of one of the two revisions, its grid cleared               *)
InitSand ==
  /\ InitAhrs /\ variant = "comp_ahrs"
  /\ IdleButSand
  /\ s_rev \in SandRevisions
  /\ grid = {} /\ sand_op = "none" /\ moves_last = << >>

(* SandGrid::AddNewSand *)
AddNewSand ==
  /\ Count(grid) < MaxGrains
  /\ grid' = grid \cup {Corner}
  /\ sand_op' = "other" /\ moves_last' = << >>
  /\ UNCHANGED <<ahrsVars, notSand, s_rev>>

(* SandGrid::AddGrainNearExisting *)
AddGrainNearExisting ==
  /\ Count(grid) < MaxGrains
  /\ IF Candidates(grid) = {}
       THEN grid' = grid
       ELSE \E n \in Candidates(grid) : grid' = grid \cup {n}
  /\ sand_op' = "other" /\ moves_last' = << >>
  /\ UNCHANGED <<ahrsVars, notSand, s_rev>>

(* SandGrid::StepOnce(gravity_deg), each grain drawing its own noise *)
StepOnce ==
  /\ \E deg \in GravityDegs :
       \E thresholds \in [1..MaxGrains -> CosThresholds(s_rev)] :
         /\ moves_last' = MovesOf(s_rev, grid, deg, thresholds)
         /\ grid' = Perform(grid, moves_last')
  /\ sand_op' = "StepOnce"
  /\ UNCHANGED <<ahrsVars, notSand, s_rev>>

(* SandGrid::Clear *)
Clear ==
  /\ grid' = {}
  /\ sand_op' = "other" /\ moves_last' = << >>
  /\ UNCHANGED <<ahrsVars, notSand, s_rev>>

NextSand == AddNewSand \/ AddGrainNearExisting \/ StepOnce \/ Clear

SpecSand == InitSand /\ [][NextSand]_vars

(* ------------------- SandGrid::MoveSand on two grids -------------------- *)
(* two grids, cleared *)
InitMoveSand ==
  /\ InitAhrs /\ variant = "comp_ahrs"
  /\ IdleButGlass
  /\ grid_up_ = {} /\ grid_down_ = {} /\ gravity_deg_ = 0
  /\ g_pc = "idle" /\ g_i = 0 /\ g_moves = << >>
  /\ glass_op = "none" /\ ms_angle = 0 /\ ms_ret = FALSE

(* SandGrid::SetCell on one of the two grids *)
SetCell ==
  /\ \E cell \in Cells, val \in BOOLEAN :
       \/ /\ val => Count(grid_up_) + Count(grid_down_) < MaxGrains
          /\ grid_up_' = SetCellOf(grid_up_, cell, val)
          /\ UNCHANGED grid_down_
       \/ /\ val => Count(grid_up_) + Count(grid_down_) < MaxGrains
          /\ grid_down_' = SetCellOf(grid_down_, cell, val)
          /\ UNCHANGED grid_up_
  /\ glass_op' = "SetCell"
  /\ UNCHANGED <<ahrsVars, notGlass, gravity_deg_, g_pc, g_i, g_moves,
                 ms_angle, ms_ret>>

(* SandGrid::MoveSand(&up, &down, angle) *)
MoveSand ==
  /\ \E angle \in MoveAngles :
       /\ ms_angle' = angle
       /\ grid_up_' = MoveSandOf(grid_up_, grid_down_, angle).up
       /\ grid_down_' = MoveSandOf(grid_up_, grid_down_, angle).down
       /\ ms_ret' = MoveSandOf(grid_up_, grid_down_, angle).ret
  /\ glass_op' = "MoveSand"
  /\ UNCHANGED <<ahrsVars, notGlass, gravity_deg_, g_pc, g_i, g_moves>>

NextMoveSand == SetCell \/ MoveSand

SpecMoveSand == InitMoveSand /\ [][NextMoveSand]_vars

(* ------------- CompGuiX::ThreadFun against FluxSand::Run ---------------- *)
(* the GUI thread about to start, after its first sleep *)
InitGlass ==
  /\ InitAhrs /\ variant = "comp_ahrs"
  /\ IdleButGlass
  /\ grid_up_ = {} /\ grid_down_ = {} /\ gravity_deg_ = 0
  /\ g_pc = "init" /\ g_i = 0 /\ g_moves = << >>
  /\ glass_op = "none" /\ ms_angle = 0 /\ ms_ret = FALSE

(* the positions of ThreadFun inside its main simulation loop *)
LoopPcs == {"loop", "perform_up", "decide_down", "perform_down"}

(* ThreadFun: init: grid_up_.Clear(); grid_down_.Clear(); *)
GuiInit ==
  /\ g_pc = "init"
  /\ grid_up_' = {} /\ grid_down_' = {}
  /\ g_i' = 0 /\ g_pc' = "fill"
  /\ UNCHANGED <<ahrsVars, notGlass, gravity_deg_, g_moves, glass_op,
                 ms_angle, ms_ret>>

(* the loop counter of the initial fill after a round *)
FillNext(i, up) == IF Corner \notin up THEN i + 1 ELSE i

(* ThreadFun: one round of the initial fill: AddNewSand, StepOnce(0) *)
GuiFill ==
  /\ g_pc = "fill"
  /\ \E thresholds \in [1..MaxGrains -> CosThresholds(GuiSandRevision)] :
       grid_up_' =
         Perform(grid_up_ \cup {Corner},
                 MovesOf(GuiSandRevision, grid_up_ \cup {Corner}, 0,
                         thresholds))
  /\ IF FillNext(g_i, grid_up_) < FillCount
       THEN g_i' = FillNext(g_i, grid_up_) /\ g_pc' = "fill"
       ELSE g_i' = 0 /\ g_pc' = "settle"
  /\ UNCHANGED <<ahrsVars, notGlass, grid_down_, gravity_deg_, g_moves,
                 glass_op, ms_angle, ms_ret>>

(* ThreadFun: one round of the settling phase: StepOnce(0) *)
GuiSettle ==
  /\ g_pc = "settle"
  /\ \E thresholds \in [1..MaxGrains -> CosThresholds(GuiSandRevision)] :
       grid_up_' =
         Perform(grid_up_, MovesOf(GuiSandRevision, grid_up_, 0, thresholds))
  /\ IF g_i + 1 < SettleSteps
       THEN g_i' = g_i + 1 /\ g_pc' = "settle"
       ELSE g_i' = 0 /\ g_pc' = "loop"
  /\ UNCHANGED <<ahrsVars, notGlass, grid_down_, gravity_deg_, g_moves,
                 glass_op, ms_angle, ms_ret>>

(* ThreadFun, main loop: grid_up_.StepOnce(gravity_deg_), the traversal   *)
(* that queues the moves                                                   *)
GuiDecideUp ==
  /\ g_pc = "loop"
  /\ Count(grid_up_) <= MaxGrains
  /\ \E thresholds \in [1..MaxGrains -> CosThresholds(GuiSandRevision)] :
       g_moves' = MovesOf(GuiSandRevision, grid_up_, gravity_deg_, thresholds)
  /\ g_pc' = "perform_up"
  /\ UNCHANGED <<ahrsVars, notGlass, grid_up_, grid_down_, gravity_deg_,
                 g_i, glass_op, ms_angle, ms_ret>>

(* ThreadFun, main loop: grid_up_.StepOnce, the queued moves performed *)
GuiPerformUp ==
  /\ g_pc = "perform_up"
  /\ grid_up_' = Perform(grid_up_, g_moves)
  /\ g_moves' = << >>
  /\ g_pc' = "decide_down"
  /\ UNCHANGED <<ahrsVars, notGlass, grid_down_, gravity_deg_, g_i,
                 glass_op, ms_angle, ms_ret>>

(* ThreadFun, main loop: grid_down_.StepOnce(gravity_deg_), the traversal *)
GuiDecideDown ==
  /\ g_pc = "decide_down"
  /\ Count(grid_down_) <= MaxGrains
  /\ \E thresholds \in [1..MaxGrains -> CosThresholds(GuiSandRevision)] :
       g_moves' = MovesOf(GuiSandRevision, grid_down_, gravity_deg_, thresholds)
  /\ g_pc' = "perform_down"
  /\ UNCHANGED <<ahrsVars, notGlass, grid_up_, grid_down_, gravity_deg_,
                 g_i, glass_op, ms_angle, ms_ret>>

(* ThreadFun, main loop: grid_down_.StepOnce, the queued moves performed, *)
(* RenderHourglass and the sleep                                          *)
GuiPerformDown ==
  /\ g_pc = "perform_down"
  /\ grid_down_' = Perform(grid_down_, g_moves)
  /\ g_moves' = << >>
  /\ g_pc' = "loop"
  /\ UNCHANGED <<ahrsVars, notGlass, grid_up_, gravity_deg_, g_i, glass_op,
                 ms_angle, ms_ret>>

(* FluxSand::Run: gui_->SetGravityDegree(ahrs_->eulr_.rol) *)
RunSetGravityDegree ==
  /\ \E deg \in GravityDegs : gravity_deg_' = deg
  /\ UNCHANGED <<ahrsVars, notGlass, grid_up_, grid_down_, g_pc, g_i,
                 g_moves, glass_op, ms_angle, ms_ret>>

(* FluxSand::Run, TIMER case with the countdown running in portrait: the  *)
(* target count (at most the grains of the fill) exceeds the count of the *)
(* lower grid, MoveSand is called on the two grids                        *)
RunMoveSand ==
  /\ g_pc \in LoopPcs
  /\ Count(grid_down_) < FillCount
  /\ ms_angle' = gravity_deg_
  /\ grid_up_' = MoveSandOf(grid_up_, grid_down_, gravity_deg_).up
  /\ grid_down_' = MoveSandOf(grid_up_, grid_down_, gravity_deg_).down
  /\ ms_ret' = MoveSandOf(grid_up_, grid_down_, gravity_deg_).ret
  /\ glass_op' = "MoveSand"
  /\ UNCHANGED <<ahrsVars, notGlass, gravity_deg_, g_pc, g_i, g_moves>>

NextGlass ==
  \/ GuiInit \/ GuiFill \/ GuiSettle
  \/ GuiDecideUp \/ GuiPerformUp \/ GuiDecideDown \/ GuiPerformDown
  \/ RunSetGravityDegree \/ RunMoveSand

SpecGlass == InitGlass /\ [][NextGlass]_vars

TypeOK ==
  /\ variant \in Variants
  /\ ready_ \in 0..MaxReads
  /\ f_pc \in 1..Len(ThreadTaskBody(variant))
  /\ t_pc \in 0..Len(RunUnitTestBody)
  /\ reads \in 0..MaxReads

(* ------------------------------ the claims ----------------------------- *)
InCycle == f_pc > 1
F == loc["filter"]
Topics(log) == [i \in DOMAIN log |-> log[i].topic]
IsPrefix(p, q) == Len(p) <= Len(q) /\ \A i \in DOMAIN p : p[i] = q[i]
OneRead(S) == Cardinality(S) = 1
UpdateBeginStep(t) == loc[t].step = 0 /\ loc'[t].step = 1
UpdateEndStep(t) == loc[t].step = 1 /\ loc'[t].step = 2

(* C1: readiness signals raised while the filter task has not returned from *)
(* ready_.acquire() coalesce: at most one wake-up is ever pending, and the  *)
(* filter runs at most one cycle per burst of signals (a burst starts with  *)
(* the first signal after the filter last returned from acquire).           *)
C1_GateCoalesces == ready_ <= 1 /\ cycles <= bursts

(* C2: the gate is released only by the gyro delivery, never by the accel   *)
(* publication, and every cycle that starts is preceded by a gyro           *)
(* publication made after the previous cycle started.                       *)
C2_GyroPacesCycles ==
  [][ /\ ready_' > ready_ => m_pc \in {"PublishGyro", "OnData"}
      /\ cycles' > cycles => gyroSince ]_vars

(* C3: the filter task runs Update only after acquiring the gate, and the   *)
(* gate starts empty: cycles started <= readiness signals raised, and while *)
(* a cycle runs a complete gyro sample has been delivered.                  *)
C3_GateBeforeUpdate ==
  /\ updates <= cycles
  /\ cycles <= signals
  /\ InCycle => (signals >= 1 /\ 0 \notin ReadsOf(gyro_))

C3_Witness == InCycle /\ updates = 1 /\ cycles = 2 /\ signals = 2

(* C4: the accel and gyro values one filter cycle consumes (loaded by       *)
(* Update, accel loaded again by AccelRemoveGravity) all come from one and  *)
(* the same sensor read, and none of the vectors is half-written.           *)
C4_OneReadPerCycle ==
  /\ F.step >= 1 => OneRead(ReadsOf(F.a))
  /\ F.step >= 2 => OneRead(ReadsOf(F.a) \cup ReadsOf(F.g))
  /\ F.step >= 3 => OneRead(ReadsOf(F.a) \cup ReadsOf(F.g) \cup ReadsOf(F.a2))

(* C5: within a cycle the five-output revision publishes in the fixed order *)
(* quaternion, Euler, gravity-free accel, yaw-free quaternion, yaw-free     *)
(* Euler.                                                                   *)
C5_PublishOrder ==
  variant = "part_002" =>
    IsPrefix(Topics(published),
             <<"quat", "eulr", "gravity_free_accel", "quat_without_z",
               "eulr_without_yaw">>)

C5_Witness == variant = "part_002" /\ Len(published) = 5 /\ cycles = 2

(* C6: in every cycle each of the five outputs is published exactly once,   *)
(* after Update, GetEulr, AccelRemoveGravity and RemoveYaw, and every       *)
(* published value derives from the quaternion of this cycle's Update.      *)
C6_PublishedAsUnit ==
  variant = "part_002" =>
    /\ \A i \in DOMAIN published :
         /\ published[i].upd = cycleUpd
         /\ \A j \in DOMAIN published :
              published[i].topic = published[j].topic => i = j
    /\ published # <<>> =>
         /\ {quat_.upd, eulr_.upd, filtered_accel_.upd, quat_without_z_.upd,
             eulr_without_yaw_.upd} = {cycleUpd}
         /\ cycleUpd = updates
    /\ (f_pc = 1 /\ cycles > 0) =>
         {published[i].topic : i \in DOMAIN published} =
           {"quat", "eulr", "gravity_free_accel", "quat_without_z",
            "eulr_without_yaw"}

C6_Witness ==
  variant = "part_002" /\ f_pc = 1 /\ cycles = 2 /\ cycleUpd = 2
  /\ Len(published) = 5

(* C7: every shared variable has one writing task: accel_/gyro_ are written *)
(* only by the sensor task, the filter state only by the filter task.       *)
C7_SingleWriter ==
  /\ \A f \in {"accel_", "gyro_"} : writers[f] \subseteq {"sensor"}
  /\ \A f \in {"quat_", "now_", "last_wakeup_", "start_", "dt_"} :
       writers[f] \subseteq {"filter"}

(* C8: an Update with a non-zero accel sample uses the gain 10.0 while      *)
(* now - start <= 1,000,000 us and 0.07 once now - start > 1,000,000 us.    *)
C8_GainSwitch ==
  \A t \in Threads :
    (loc[t].step = 2 /\ ~IsZeroVector(loc[t].a)) =>
       loc[t].beta_imu = IF now_ - start_ <= 1000000 THEN 1000 ELSE 7

(* C9: start_ is assigned only at construction, so once an Update has used  *)
(* the slow gain no later Update uses the fast gain.                        *)
C9_StartFixed ==
  [][ /\ start_' = start_
      /\ \A t \in Threads :
           (slowUsed /\ UpdateEndStep(t)) => loc'[t].beta_imu # 1000 ]_vars

(* C10: every Update sets dt to now - last_wakeup, with now captured in     *)
(* this cycle and last_wakeup the timestamp of the previous cycle (the      *)
(* construction time at first), and then sets last_wakeup to now.           *)
C10_DtFromClock ==
  [][ /\ last_wakeup_ = now_
      /\ \A t \in Threads :
           UpdateBeginStep(t) =>
             /\ now_' = clock'
             /\ dt_' = now_' - now_
             /\ last_wakeup_' = now_' ]_vars

(* the quaternion the last Update yields from its inputs by gyro-only      *)
(* integration, and the one it yields with the feedback step applied       *)
LastGyroOnly == Integrate(last_f.q, GyroRate(last_f.q, last_f.g), last_f.dt)
LastCorrected ==
  Integrate(last_f.q,
            ApplyFeedback(GyroRate(last_f.q, last_f.g), last_f.beta,
                          Feedback(last_f.q, last_f.a)),
            last_f.dt)
QuatFinite(q) ==
  IsFinite(q.q0) /\ IsFinite(q.q1) /\ IsFinite(q.q2) /\ IsFinite(q.q3)

(* C11: an Update whose accel sample is exactly (0,0,0) applies no feedback *)
(* step: the quaternion is the integrated and renormalised gyro-only rate,  *)
(* and it stays finite when it was finite; an Update whose accel sample is  *)
(* not (0,0,0) applies the feedback step, also right after a skipped one.   *)
C11_ZeroAccelSkipsFeedback ==
  cycles_f > 0 =>
    /\ last_f.a = Vec(0, 0, 0) =>
         /\ quat_f = LastGyroOnly
         /\ QuatFinite(last_f.q) => QuatFinite(quat_f)
    /\ last_f.a # Vec(0, 0, 0) => quat_f = LastCorrected

C11_Witness ==
  /\ cycles_f = 2 /\ last_f.after_skip /\ last_f.a # Vec(0, 0, 0)
  /\ QuatFinite(quat_f) /\ quat_f # LastGyroOnly

(* C12: the value a CycleValue holds lies in [0, 2 pi) after construction  *)
(* from a float, copying, assignment, operator+, operator+= and negation.  *)
C12_CycleValueInRange == FGe(cv, 0) /\ FLt(cv, M_2PI)

(* C13: for a and b in [0, 2 pi) the difference d = a - b satisfies         *)
(* -pi <= d < pi and is a - b up to a whole turn (and the rounding of one   *)
(* float subtraction).                                                      *)
C13_ShortestDifference ==
  (cv_op = "minus" /\ FGe(cv, 0) /\ FLt(cv, M_2PI)
     /\ FGe(cv_arg, 0) /\ FLt(cv_arg, M_2PI)) =>
    /\ FGe(cv_ans, 0 - M_PI) /\ FLt(cv_ans, M_PI)
    /\ \E k \in {0 - 1, 0, 1} :
         Abs(cv_ans - (cv - cv_arg) - k * M_2PI) <= Ulp(M_2PI)

(* C14: after RemoveYaw the yaw-free Euler angles have the pitch and roll   *)
(* of the full Euler angles of the same cycle and yaw exactly 0, and        *)
(* RemoveYaw applied to its own output yields that output again.            *)
C14_RemoveYaw ==
  pc_e = "GetEulr" =>
    /\ eulr_without_yaw_v.pit = eulr_v.pit
    /\ eulr_without_yaw_v.rol = eulr_v.rol
    /\ eulr_without_yaw_v.yaw = 0
    /\ RemoveYawOf(eulr_without_yaw_v) = eulr_without_yaw_v

C14_Witness ==
  /\ pc_e = "GetEulr"
  /\ eulr_v.yaw # 0 /\ eulr_v.pit # 0 /\ eulr_v.rol # eulr_v.pit
  /\ eulr_without_yaw_v = Eulr(eulr_v.pit, eulr_v.rol, 0)

(* the sample of 8 values named by C15, read from the members e, g, a *)
SampleOfEight(e, g, a) ==
  << Value("pit", e, FALSE), Value("rol", e, FALSE),
     Value("x", g, FALSE), Value("y", g, FALSE), Value("z", g, FALSE),
     Value("x", a, TRUE), Value("y", a, TRUE), Value("z", a, TRUE) >>

(* the last n elements of a sequence *)
LastN(seq, n) == SubSeq(seq, Len(seq) - n + 1, Len(seq))

(* C15: every CollectSensorData appends pitch, roll, gyro.x, gyro.y,       *)
(* gyro.z, accel.x/g, accel.y/g, accel.z/g in this order, and leaves at     *)
(* most input_tensor_size_ values in the buffer, the oldest dropped first.  *)
C15_SampleOfEight ==
  [][ (i_pc = "collect" /\ i_pc' = "acquire") =>
        /\ Len(sensor_buffer_') <= input_tensor_size_
        /\ \E n \in 0..(Len(sensor_buffer_) + 8) :
             sensor_buffer_' =
               LastN(sensor_buffer_ \o SampleOfEight(i_eulr, i_gyro, i_accel),
                     n)
        /\ Len(sensor_buffer_') =
             IF Len(sensor_buffer_) + 8 <= input_tensor_size_
               THEN Len(sensor_buffer_) + 8 ELSE input_tensor_size_ ]_vars

(* the messages the filter publishes as yaw-free Euler angles and as       *)
(* gravity-free acceleration, and a member not yet written                 *)
YawFree(m) == m.topic \in {"none", "eulr_without_yaw"}
GravityFree(m) == m.topic \in {"none", "gravity_free_accel"}

(* C16: the Euler value and the acceleration value the classifier stores,  *)
(* and every such value in its feature buffer, came from the filter's      *)
(* yaw-free Euler topic and gravity-free acceleration topic.               *)
C16_OnlyFilteredInputs ==
  /\ YawFree(i_eulr) /\ GravityFree(i_accel)
  /\ \A i \in 1..Len(sensor_buffer_) :
       /\ sensor_buffer_[i].field \in {"pit", "rol"} =>
            YawFree(sensor_buffer_[i])
       /\ sensor_buffer_[i].per_g => GravityFree(sensor_buffer_[i])

(* C17: every sensor read of Mpu9250::MainThreadTask is followed by one     *)
(* gyro publication, which runs the filter's gyro callback once: the        *)
(* readiness signal has been raised once for every read whose publications  *)
(* are done, and not yet for a read whose gyro publication is pending.      *)
C17_OneSignalPerRead ==
  variant = "part_002" =>
    signals = IF m_pc \in {"PublishAccel", "PublishGyro"}
                THEN reads - 1 ELSE reads

C17_Witness ==
  /\ variant = "part_002" /\ m_pc = "sleep"
  /\ reads = MaxReads /\ signals = MaxReads

(* C18: a countdown that the main loop finds expired in TIMER mode makes    *)
(* the loop play the completion note and disable the sand animation, once   *)
(* for that expiry: when a turn of Run has ended, as many completion notes  *)
(* were played and as many SandDisable calls made as countdowns expired.    *)
C18_ExpiryNoteOnce ==
  run_pc \in {"sleep", "begin"} =>
    notes = expiries /\ run_disables = expiries

(* the tolerance on the squared norm: eight spacings of the floats at 1 *)
NormTol == 8 * (ONE \div MANT)

(* C19: after every Update, from the seed orientation and for every finite  *)
(* accel, gyro and dt, the quaternion is finite and has unit norm within    *)
(* the float tolerance.                                                     *)
C19_UnitNorm ==
  cycles_f > 0 =>
    /\ QuatFinite(quat_f)
    /\ Abs(NormSquared(quat_f) - ONE) <= NormTol

(* the quaternions of the identity rotation: the seed (-1, 0, 0, 0) and    *)
(* (1, 0, 0, 0)                                                            *)
IdentityRotation(q) == q \in {QuatSeed, Quat(ONE, 0, 0, 0)}

(* C20: in the identity orientation AccelRemoveGravity subtracts exactly    *)
(* GRAVITY from the Z component and leaves X and Y unchanged; for the       *)
(* accel sample (0, 0, 9.84) the result is (0, 0, 0).                       *)
C20_GravityRemovedAtIdentity ==
  (cycles_f > 0 /\ pc_f = "Update" /\ IdentityRotation(grav_f.q)) =>
    /\ filtered_accel_f =
         Vec(grav_f.a.x, grav_f.a.y, FSub(grav_f.a.z, GRAVITY))
    /\ grav_f.a = Vec(0, 0, GRAVITY) => filtered_accel_f = Vec(0, 0, 0)

C20_Witness ==
  /\ cycles_f > 0 /\ pc_f = "Update"
  /\ grav_f.q = QuatSeed /\ grav_f.a = Vec(0, 0, GRAVITY)
  /\ filtered_accel_f = Vec(0, 0, 0)

(* C21: with a constant non-zero still accelerometer vector and no         *)
(* rotation, after an Update and GetEulr from the rest orientation (the    *)
(* constructor's quaternion, or the identity RunUnitTest sets) the roll,   *)
(* pitch and yaw, each normalised as RunUnitTest normalises them, are      *)
(* within the tolerance 0.1 rad of 0                                       *)
C21_RestWithinTolerance ==
  (pc_f = "acquire" /\ cycles_f > 0) =>
    /\ WithinTolerance(eulr_f.rol)
    /\ WithinTolerance(eulr_f.pit)
    /\ WithinTolerance(eulr_f.yaw)

(* the scaled raw count of one axis of the last register read *)
ScaledX == ScaleGyro(Int16(data_d.xh, data_d.xl))
ScaledY == ScaleGyro(Int16(data_d.yh, data_d.yl))
ScaledZ == ScaleGyro(Int16(data_d.zh, data_d.zl))

(* stored is the float of scaled + correction *)
CorrectedBy(stored, scaled, correction) ==
  /\ IsFinite(stored)
  /\ 2 * Abs(stored - (scaled + correction)) <= Ulp(Abs(scaled + correction))

(* C22, as the program has it: on every axis the gyro value ReadData       *)
(* stores is the scaled raw count minus the loaded bias, and the value     *)
(* published after the read is the stored one                              *)
C22_BiasSubtracted ==
  reads_d > 0 =>
    /\ CorrectedBy(gyro_d.x, ScaledX, 0 - gyro_bias_.x)
    /\ CorrectedBy(gyro_d.y, ScaledY, 0 - gyro_bias_.y)
    /\ CorrectedBy(gyro_d.z, ScaledZ, 0 - gyro_bias_.z)
    /\ (pc_d = "ReadData" => gyro_pub_d = gyro_d)

(* C22, witness: a read of non-zero counts, published, with a bias loaded  *)
(* from the file                                                           *)
C22_Witness ==
  /\ reads_d > 0 /\ pc_d = "ReadData"
  /\ gyro_bias_ = file_d.data /\ gyro_bias_.x = 3 /\ gyro_bias_.y = ONE
  /\ ScaledX # 0 /\ gyro_pub_d = gyro_d /\ FLt(gyro_pub_d.x, ScaledX)

(* C22, as stated: on every axis the gyro value ReadData stores is the     *)
(* scaled raw count plus the loaded bias                                   *)
C22_BiasAdded ==
  reads_d > 0 =>
    /\ CorrectedBy(gyro_d.x, ScaledX, gyro_bias_.x)
    /\ CorrectedBy(gyro_d.y, ScaledY, gyro_bias_.y)
    /\ CorrectedBy(gyro_d.z, ScaledZ, gyro_bias_.z)

(* all three floats of a complete file are finite and within [-1, 1] *)
FileUsable ==
  /\ file_d # NoFile /\ file_d.size = SIZEOF_VECTOR3
  /\ \A c \in {file_d.data.x, file_d.data.y, file_d.data.z} :
       IsFinite(c) /\ c >= 0 - ONE /\ c <= ONE

(* C26: after LoadCalibrationData the bias is the file's three floats when *)
(* the file is there, has the size of a Vector3 and holds only finite      *)
(* floats within [-1, 1]; in every other case the bias is (0, 0, 0)        *)
C26_BiasLoadedOrZero ==
  pc_d # "LoadCalibrationData" =>
    gyro_bias_ = (IF FileUsable THEN file_d.data ELSE Vec(0, 0, 0))

(* C26, witness: a complete file with a NaN was met and the bias is zero *)
C26_Witness ==
  /\ pc_d # "LoadCalibrationData"
  /\ file_d.size = SIZEOF_VECTOR3 /\ file_d.data.y = NaN /\ file_d.data.x = 3
  /\ gyro_bias_ = Vec(0, 0, 0)

(* C23: in the revisions with the two callbacks the accel sample of a read *)
(* is published before its gyro sample: when the gyro sample is about to   *)
(* be published the filter's accel slot holds the accel of that read, and  *)
(* when gyro_ready_cb has released the gate both slots hold that read      *)
C23_AccelBeforeGyro ==
  variant \in {"part_002", "part_003"} =>
    /\ m_pc = "PublishGyro" => accel_ = m_accel /\ ReadsOf(accel_) = {reads}
    /\ m_pc = "sleep" =>
         /\ accel_ = m_accel /\ ReadsOf(accel_) = {reads}
         /\ gyro_ = m_gyro /\ ReadsOf(gyro_) = {reads}

(* C23, witness: the gate was released by the gyro sample of the second    *)
(* read                                                                    *)
C23_Witness ==
  /\ variant = "part_002" /\ m_pc = "sleep" /\ reads = 2 /\ signals = 2
  /\ ReadsOf(accel_) = {2} /\ ReadsOf(gyro_) = {2}

(* ---------------- the classifier task and the model --------------------- *)
(* the number of values the buffer holds after n wake-ups: eight per       *)
(* wake-up until the window is full                                        *)
BufferedAfter(n) ==
  IF 8 * n < input_tensor_size_ THEN 8 * n ELSE input_tensor_size_

(* the sample of the last wake-up, and whether a buffer ends with a       *)
(* sample (with its last values when the window is shorter than one)      *)
LastSample == Sample(i_rev, collected[1], collected[2], collected[3])
EndsWithSample(buf, sample) ==
  IF Len(buf) >= Len(sample)
    THEN SubSeq(buf, Len(buf) - Len(sample) + 1, Len(buf)) = sample
    ELSE buf = SubSeq(sample, Len(sample) - Len(buf) + 1, Len(sample))

(* C24: the classifier task of the first revision invokes the model only   *)
(* on a full window (input_tensor_size_ values, never fewer), at most once *)
(* per new_data_number_ + 1 collected samples, and every wake-up appends   *)
(* exactly one sample of eight values to the buffer.                       *)
C24_FullWindowAtMostOncePerPeriod ==
  i_rev = "first" =>
    /\ Len(windows) = Len(run_at)
    /\ \A k \in 1..Len(windows) : windows[k] = input_tensor_size_
    /\ \A k \in 1..Len(run_at) :
         /\ 8 * run_at[k] >= input_tensor_size_
         /\ run_at[k] - (IF k = 1 THEN 0 ELSE run_at[k - 1])
              >= new_data_number_ + 1
    /\ Len(sensor_buffer_) = BufferedAfter(wakeups)
    /\ wakeups > 0 => EndsWithSample(sensor_buffer_, LastSample)

(* the task with a period of two has invoked the model twice on a window  *)
(* of two samples                                                          *)
C24_Witness ==
  /\ i_rev = "first" /\ new_data_number_ = 1 /\ input_tensor_size_ = 16
  /\ Len(run_at) = 2 /\ wakeups = 4 /\ windows = <<16, 16>>
  /\ Len(sensor_buffer_) = 16

(* the last entry of a history, and the entries a history of the given    *)
(* size keeps of an older one when one more is recorded: all of them, or  *)
(* all but the oldest                                                      *)
Newest(history) == history[Len(history)]
KeptOf(history, size) ==
  IF Len(history) < size THEN history ELSE Tail(history)

(* C25: a call of RunInference leaves at most history_size_ entries in    *)
(* the prediction history, the oldest dropped first; it records           *)
(* UNRECOGNIZED for an output whose top probability is below              *)
(* confidence_threshold_ and the top class otherwise; and it returns a    *)
(* label only if that label has at least min_consensus_votes_ entries in  *)
(* the history, "No Action" otherwise.                                    *)
C25_HistoryThresholdConsensus ==
  [][inferences' = inferences + 1 =>
       /\ Len(prediction_history_') <= history_size_
       /\ prediction_history_' =
            Append(KeptOf(prediction_history_, history_size_),
                   Newest(prediction_history_'))
       /\ Newest(prediction_history_') =
            (IF FLt(last_answer'.prob, confidence_threshold_)
               THEN "UNRECOGNIZED" ELSE last_answer'.class)
       /\ \/ /\ result' = "No Action"
              /\ \A l \in ModelOutput :
                   Votes(prediction_history_', l) < min_consensus_votes_
          \/ \E l \in ModelOutput :
               /\ result' = LABELS[l]
               /\ Votes(prediction_history_', l) >= min_consensus_votes_
  ]_vars

(* the fourth call with a history of three: the oldest entry is gone, the *)
(* doubtful output is recorded as UNRECOGNIZED, and the two votes that    *)
(* remain for the gesture still make it the result                        *)
C25_Witness ==
  /\ history_size_ = 3 /\ min_consensus_votes_ = 2 /\ inferences = 4
  /\ FLt(last_answer.prob, confidence_threshold_)
  /\ last_answer.class = "STILL"
  /\ prediction_history_ = <<"SHAKE_FORWARD", "SHAKE_FORWARD", "UNRECOGNIZED">>
  /\ result = "Shake Forward"

(* ------------------------- the countdown timer -------------------------- *)
(* the durations AdjustTimer is tried on in every state: the ends of the  *)
(* range and one step inside each of them                                 *)
Durations == {0, ADJUST_SEC, TIMER_MAX_SEC - ADJUST_SEC, TIMER_MAX_SEC}

(* AdjustTimer on the members of this state with the duration replaced *)
Adjusted(duration, delta_sec) ==
  AdjustTimer([Members EXCEPT !.duration = duration], delta_sec).duration

AfterGesture(g) == Gesture(c_rev, Members, g, steady)

(* C28: a countdown is started only by a SHAKE_FORWARD received in TIMER  *)
(* mode while none is running; a SHAKE_FORWARD in another mode or during  *)
(* a countdown changes nothing; a SHAKE_BACKWARD stops the countdown in   *)
(* TIMER mode and changes nothing in any other mode.                      *)
C28_ShakeStartsAndStops ==
  /\ [](c_rev = "controller" =>
          /\ mode_ # TIMER \/ timer_active_ =>
               AfterGesture("SHAKE_FORWARD") = Members
          /\ mode_ = TIMER /\ ~timer_active_ =>
               /\ AfterGesture("SHAKE_FORWARD").active
               /\ AfterGesture("SHAKE_FORWARD").start = steady
          /\ mode_ # TIMER => AfterGesture("SHAKE_BACKWARD") = Members
          /\ mode_ = TIMER => ~AfterGesture("SHAKE_BACKWARD").active)
  /\ [][c_rev = "controller" /\ timer_active_'
          /\ (~timer_active_ \/ timer_start_time_' # timer_start_time_) =>
            /\ gestures' = gestures + 1
            /\ mode_ = TIMER /\ ~timer_active_
            /\ Members' = AfterGesture("SHAKE_FORWARD")]_vars

(* a countdown started by a shake in TIMER mode, some time after the      *)
(* clock began to run                                                      *)
C28_Witness ==
  /\ c_rev = "controller" /\ mode_ = TIMER /\ timer_active_
  /\ timer_start_time_ > 0 /\ timer_start_time_ = steady
  /\ timer_duration_sec_ = ADJUST_SEC /\ gestures = 2

(* ------------------------------ the stopwatch --------------------------- *)
(* C29: StartStopwatch changes nothing when the stopwatch is running;     *)
(* StopStopwatch changes nothing when it is not running and otherwise     *)
(* stops it with the accumulated elapsed time reset to 0; every button-2  *)
(* press in STOPWATCH mode toggles the stopwatch and nothing else starts  *)
(* or stops it, so that successive presses alternate strictly.            *)
C29_StopwatchToggles ==
  /\ [](c_rev = "controller" =>
          /\ stopwatch_running_ =>
               /\ StartStopwatch(Members, steady) = Members
               /\ StopStopwatch(Members) =
                    [Members EXCEPT !.running = FALSE, !.sw_elapsed = 0]
          /\ ~stopwatch_running_ =>
               /\ StopStopwatch(Members) = Members
               /\ StartStopwatch(Members, steady).running)
  /\ [][c_rev = "controller" =>
          /\ presses' = presses + 1 /\ mode_ = STOPWATCH
               /\ mode_' = STOPWATCH =>
                 /\ stopwatch_running_' = ~stopwatch_running_
                 /\ stopwatch_elapsed_sec_' = 0
          /\ stopwatch_running_' # stopwatch_running_ =>
               presses' = presses + 1 /\ mode_ = STOPWATCH
                 /\ mode_' = STOPWATCH]_vars

(* button 2 has started the stopwatch and, a while later, stopped it *)
C29_Witness ==
  /\ c_rev = "controller" /\ mode_ = STOPWATCH /\ presses = 5
  /\ ~stopwatch_running_ /\ steady > stopwatch_start_time_
  /\ stopwatch_start_time_ > 0 /\ stopwatch_elapsed_sec_ = 0

(* ------------------------------ the sand grid --------------------------- *)
(* the moves of a sequence have distinct sources and distinct targets *)
DistinctEnds(moves) ==
  \A i, j \in 1..Len(moves) :
    i # j => moves[i][1] # moves[j][1] /\ moves[i][2] # moves[j][2]

(* C30: StepOnce never changes the number of grains; every move it queues *)
(* goes from a distinct occupied cell to a distinct in-bounds cell that   *)
(* was empty at the start of the step.                                    *)
C30_StepOnceKeepsCount ==
  [][sand_op' = "StepOnce" =>
       /\ Count(grid') = Count(grid)
       /\ DistinctEnds(moves_last')
       /\ \A i \in 1..Len(moves_last') :
            /\ moves_last'[i][1] \in grid
            /\ moves_last'[i][2] \in Cells \ grid
       /\ grid' = (grid \ {moves_last'[i][1] : i \in 1..Len(moves_last')})
                    \cup {moves_last'[i][2] : i \in 1..Len(moves_last')}
  ]_vars

(* a step has moved both grains of the grid, one of them out of the      *)
(* corner                                                                *)
C30_Witness ==
  /\ sand_op = "StepOnce" /\ Len(moves_last) = 2 /\ Count(grid) = 2
  /\ Corner \notin grid

(* ------------------------------ MoveSand -------------------------------- *)
(* the angles the claim sends a grain downward for: a number below 90 or *)
(* above 270                                                              *)
DownAngles(angle) == angle # NaN /\ (angle < 90 \/ angle > 270)

(* C31: MoveSand transfers one grain between up[0][0] and the last cell   *)
(* of down, downward when angle < 90 or angle > 270 and upward otherwise, *)
(* and returns true, exactly when the source cell is occupied and the     *)
(* destination cell is empty; otherwise it returns false and changes      *)
(* neither grid; the sum of the two counts is the same in both cases.     *)
C31_MoveSandTransfersOne ==
  [][glass_op' = "MoveSand" =>
       /\ Count(grid_up_') + Count(grid_down_') =
            Count(grid_up_) + Count(grid_down_)
       /\ ms_ret' =
            IF DownAngles(ms_angle')
              THEN TopCell \in grid_up_ /\ Corner \notin grid_down_
              ELSE Corner \in grid_down_ /\ TopCell \notin grid_up_
       /\ ~ms_ret' => grid_up_' = grid_up_ /\ grid_down_' = grid_down_
       /\ ms_ret' /\ DownAngles(ms_angle') =>
            /\ grid_up_' = grid_up_ \ {TopCell}
            /\ grid_down_' = grid_down_ \cup {Corner}
       /\ ms_ret' /\ ~DownAngles(ms_angle') =>
            /\ grid_up_' = grid_up_ \cup {TopCell}
            /\ grid_down_' = grid_down_ \ {Corner}
  ]_vars

(* a grain has gone up at exactly 90 degrees, another grain staying in    *)
(* the lower grid                                                         *)
C31_Witness ==
  /\ glass_op = "MoveSand" /\ ms_ret /\ ms_angle = 90
  /\ TopCell \in grid_up_ /\ Corner \notin grid_down_
  /\ Count(grid_up_) = 1 /\ Count(grid_down_) = 1

(* C35: after the initial fill the two grids hold the grains of the fill  *)
(* between them for as long as the animation runs, whatever the           *)
(* interleaving of the main loop's MoveSand with the GUI thread's         *)
(* StepOnce.                                                               *)
C35_TotalGrainsStay ==
  g_pc \in LoopPcs => Count(grid_up_) + Count(grid_down_) = FillCount

(* ------------------------ announced predictions ------------------------- *)
(* C32: the task of the first revision announces a prediction only when   *)
(* it differs from the one announced before it and is neither             *)
(* "Unrecognized" nor "No Action": no two consecutive announcements are   *)
(* equal, and the one remembered is the last one announced.               *)
C32_AnnouncesOnlyChanges ==
  i_rev = "first" =>
    /\ \A k \in 1..Len(announced) :
         /\ announced[k] \notin {"Unrecognized", "No Action", ""}
         /\ k > 1 => announced[k] # announced[k - 1]
    /\ last_result =
         (IF announced = << >> THEN "" ELSE announced[Len(announced)])
    /\ result \notin {"Unrecognized", "No Action", ""} =>
         last_result = result

(* four runs of the model, three announcements: a repeated prediction was *)
(* kept back and a gesture was announced again after another one          *)
C32_Witness ==
  /\ inferences = 4
  /\ announced = <<"Shake Forward", "Still", "Shake Forward">>

(* C37: after every CollectSensorData of the first revision the feature   *)
(* buffer starts at a sample boundary: its length is a multiple of 8 and  *)
(* its first element is a pitch value, whatever input_tensor_size_ is.    *)
C37_BufferAtSampleBoundary ==
  i_rev = "first" /\ wakeups > 0 =>
    /\ Len(sensor_buffer_) % 8 = 0
    /\ sensor_buffer_ # << >>
    /\ sensor_buffer_[1].field = "pit"

(* C34: whenever the display mode is not TIMER and neither a callback nor  *)
(* a turn of Run is in progress, the sand animation is disabled            *)
C34_SandOffOutsideTimer ==
  c_rev = "controller" /\ run_pc = "begin" /\ mode_ # TIMER
    => ~sand_enable_

(* C36: whenever Run computes the target count of the lower grid, the      *)
(* maximum timer duration it divides by is greater than 0                  *)
C36_MaxDurationPositive ==
  [][RunRender /\ ComputesTarget => max_duration_sec_ > 0]_vars

(* the calibration finishes at most once *)
FinishesOnce == completions <= 1

(* this step is the finishing block of the calibration *)
FinishingStep == completions' # completions

(* the bias and the file change in the finishing block only, and that block *)
(* runs more than 35 s after the window started, with no movement found    *)
(* since                                                                    *)
FinishesAfterQuietWindow ==
  /\ gyro_bias_' # gyro_bias_ \/ file_d' # file_d \/ saves' # saves
       => FinishingStep
  /\ FinishingStep
       => steady_c - start_time > FINISH_AFTER_SEC /\ moved_at <= start_time

(* a turn that finds movement leaves the inner loop, and the outer loop    *)
(* starts the window again with the sums and the count at zero             *)
MovementRestarts ==
  /\ moved_at' # moved_at => cali_pc' = "break"
  /\ cali_pc = "break" => cali_pc' \in {"break", "outer"}
  /\ cali_pc = "outer" /\ cali_pc' # "outer"
       => /\ start_time' = steady_c /\ cali_counter' = 0
          /\ gyro_offset' = Vec(0, 0, 0)

(* the finishing block divides by a count greater than 0 *)
AveragesOverSamples == FinishingStep => cali_counter' > 0

(* C33: the gyro calibration finishes at most once; the bias is updated    *)
(* and saved only after more than 35 s without a movement found, a         *)
(* movement discards the sums and restarts the window, and the count is    *)
(* greater than 0 whenever the average is computed                         *)
C33_CalibratesOnceOverSamples ==
  /\ []FinishesOnce
  /\ [][FinishesAfterQuietWindow /\ MovementRestarts
         /\ AveragesOverSamples]_vars

(* the first three parts of C33 without the count *)
CalibratesOnceAfterQuietWindow ==
  /\ []FinishesOnce
  /\ [][FinishesAfterQuietWindow /\ MovementRestarts]_vars

(* the count alone *)
CountPositiveAtAverage == [][AveragesOverSamples]_vars

(* a calibration that finished over samples, after a movement restarted it, *)
(* and changed the bias                                                     *)
CalibratedOverSamples ==
  completions = 1 /\ averaged_over > 0 /\ moved_at >= 0 /\ saves = 1

====
